---- MODULE Spec2Model ----
(***************************************************************************)
(* Model of the tolerant response parser (src/common.py) and of the score  *)
(* parsing of the evaluator (src/evaluators.py) of script-writer.          *)
(*                                                                         *)
(* A text is a sequence of one-character strings.  The library functions   *)
(* the code calls (str.strip, str.replace, re.sub, re.findall, json.loads) *)
(* are modelled by what they do on the characters of Char.                 *)
(***************************************************************************)
EXTENDS Integers, Sequences, FiniteSets, TLC

\* ------------------------------------------------------------------------
\* Characters
\* ------------------------------------------------------------------------

\* The control character U+0008, which json.loads produces for the escape \b.
BSP == "<U+0008>"

\* The backtick U+0060 (a TLA+ string cannot hold it).
BT == "<U+0060>"

\* Two characters outside ASCII, and the four hexadecimal digits of each in
\* a \uXXXX escape.
E_ACUTE == "<U+00E9>"
ZHONG == "<U+4E2D>"
NonAscii == { E_ACUTE, ZHONG }
Hex(c) == IF c = E_ACUTE THEN <<"0", "0", "e", "9">> ELSE <<"4", "e", "2", "d">>

\* The characters texts are made of.  There is no digit, no sign, no 'u' and
\* not all letters of true / false / null / NaN / Infinity, so the number,
\* literal and \uXXXX branches of the JSON scanner cannot match.
Char ==
    { "[", "]", "{", "}", "\"", "\\", ",", ":", ".", BT, " ", "\n", "\t", "\r",
      "t", "i", "l", "e", "b", "o", "d", "y", "j", "s", "n", "A", "B", "C", "D",
      BSP }

\* str.strip() and the \s of re: the whitespace among Char.
PyWhitespace == { " ", "\n", "\t", "\r" }

\* [\x00-\x1f\x7f]: the control characters among Char.
ControlChars == { "\n", "\t", "\r", BSP }

\* WHITESPACE of json.decoder: [ \t\n\r]
JsonWhitespace == { " ", "\t", "\n", "\r" }

\* ------------------------------------------------------------------------
\* str methods
\* ------------------------------------------------------------------------

Take(s, n) == SubSeq(s, 1, n)
Drop(s, n) == SubSeq(s, n + 1, Len(s))

\* s.startswith(p)
StartsWith(s, p) == Len(p) <= Len(s) /\ Take(s, Len(p)) = p

\* s.endswith(p)
EndsWith(s, p) == Len(p) <= Len(s) /\ Drop(s, Len(s) - Len(p)) = p

Min(S) == CHOOSE x \in S : \A y \in S : x <= y
Max(S) == CHOOSE x \in S : \A y \in S : x >= y

\* s.lstrip(chars): from the first character not in chars
LStrip(s, chars) ==
    LET kept == { i \in 1..Len(s) : s[i] \notin chars } IN
    IF kept = {} THEN <<>> ELSE Drop(s, Min(kept) - 1)

\* s.rstrip(chars): up to the last character not in chars
RStrip(s, chars) ==
    LET kept == { i \in 1..Len(s) : s[i] \notin chars } IN
    IF kept = {} THEN <<>> ELSE Take(s, Max(kept))

\* s.strip()
Strip(s) == RStrip(LStrip(s, PyWhitespace), PyWhitespace)

\* s.replace(old, ""): every non-overlapping occurrence, left to right
RECURSIVE Remove(_, _)
Remove(s, old) ==
    LET found == { i \in 1..(Len(s) - Len(old) + 1) : SubSeq(s, i, i + Len(old) - 1) = old } IN
    IF found = {} THEN s
    ELSE Take(s, Min(found) - 1) \o Remove(Drop(s, Min(found) + Len(old) - 1), old)

\* s.count(c) for a one-character c
Count(s, c) == Cardinality({ i \in 1..Len(s) : s[i] = c })

\* c * n
RECURSIVE Repeat(_, _)
Repeat(c, n) == IF n <= 0 THEN <<>> ELSE <<c>> \o Repeat(c, n - 1)

\* ------------------------------------------------------------------------
\* re.sub
\* ------------------------------------------------------------------------

\* re.sub(r'[\x00-\x1f\x7f]', ' ', s); also s.replace('\n', ' ') etc.
ReplaceControl(s) == [ i \in 1..Len(s) |-> IF s[i] \in ControlChars THEN " " ELSE s[i] ]

\* A cleaning that leaves every run of whitespace as written.
KeepWhitespace(s) == s

\* re.sub(r'\s+', ' ', s)
RECURSIVE CollapseWhitespace(_)
CollapseWhitespace(s) ==
    LET spaces == { i \in 1..Len(s) : s[i] \in PyWhitespace } IN
    IF spaces = {} THEN s
    ELSE Take(s, Min(spaces) - 1) \o <<" ">>
         \o CollapseWhitespace(LStrip(Drop(s, Min(spaces)), PyWhitespace))

BACKTICKS == <<BT, BT, BT>>
FENCE_JSON == BACKTICKS \o <<"j", "s", "o", "n">>

\* common.py 69-73: strip, then remove the fence markers when the text starts
\* with one
StripFences(json_response) ==
    LET cleaned == Strip(json_response) IN
    IF StartsWith(cleaned, FENCE_JSON)
    THEN Strip(Remove(Remove(cleaned, FENCE_JSON), BACKTICKS))
    ELSE IF StartsWith(cleaned, BACKTICKS)
    THEN Strip(Remove(cleaned, BACKTICKS))
    ELSE cleaned

\* common.py 75-81: control characters to spaces, runs of whitespace to one
CleanResponse(json_response) ==
    CollapseWhitespace(ReplaceControl(StripFences(json_response)))

\* ------------------------------------------------------------------------
\* json.loads
\* ------------------------------------------------------------------------

\* The nesting depth of arrays and objects at which the interpreter's
\* recursion guard stops the JSON scanner with a RecursionError (scaled down:
\* CPython's limit is about a thousand frames).
RecursionLimit == 4

\* JSON values: a string, an array, an object (its items in insertion order)
JStr(chars) == [t |-> "str", v |-> chars]
JArr(values) == [t |-> "list", v |-> values]
JObj(items) == [t |-> "dict", v |-> items]

\* The outcome of a scan: a value and the index after it, or the exception
Parsed(val, end) == [exc |-> "", msg |-> "", val |-> val, end |-> end]
JSONDecodeError(msg) == [exc |-> "JSONDecodeError", msg |-> msg, val |-> <<>>, end |-> 0]
RecursionError == [exc |-> "RecursionError", msg |-> "maximum recursion depth exceeded",
                   val |-> <<>>, end |-> 0]

UNTERMINATED == "Unterminated string starting at"

\* WHITESPACE.match(s, i).end()
RECURSIVE SkipWS(_, _)
SkipWS(s, i) == IF i <= Len(s) /\ s[i] \in JsonWhitespace THEN SkipWS(s, i + 1) ELSE i

\* s[i:i+1] == c
At(s, i, c) == i <= Len(s) /\ s[i] = c

\* BACKSLASH of json.decoder, on the characters of Char
Unescape(c) ==
    CASE c = "b" -> BSP
      [] c = "n" -> "\n"
      [] c = "t" -> "\t"
      [] OTHER -> c

\* A dict that keeps its newest item only.
KeepNewest(items, key, value) == <<<<key, value>>>>

\* d[key] = value on a dict kept as its items in insertion order
DictSet(items, key, value) ==
    IF \E i \in 1..Len(items) : items[i][1] = key
    THEN [ i \in 1..Len(items) |-> IF items[i][1] = key THEN <<key, value>> ELSE items[i] ]
    ELSE Append(items, <<key, value>>)

\* json.decoder.scanstring(s, end, strict=True): end is the index after the
\* opening quote, acc the characters decoded so far
RECURSIVE scanstring(_, _, _)
scanstring(s, end, acc) ==
    IF end > Len(s) THEN JSONDecodeError(UNTERMINATED)
    ELSE IF s[end] = "\"" THEN Parsed(acc, end + 1)
    ELSE IF s[end] = "\\" THEN
        IF end + 1 > Len(s) THEN JSONDecodeError(UNTERMINATED)
        ELSE IF s[end + 1] \in { "\"", "\\", "b", "n", "t" }
        THEN scanstring(s, end + 2, Append(acc, Unescape(s[end + 1])))
        ELSE IF s[end + 1] = "u"
        THEN IF \E c \in NonAscii : SubSeq(s, end + 2, Min({ end + 5, Len(s) })) = Hex(c)
             THEN scanstring(s, end + 6,
                     Append(acc, CHOOSE c \in NonAscii : SubSeq(s, end + 2, end + 5) = Hex(c)))
             ELSE JSONDecodeError("Invalid \\uXXXX escape")
        ELSE JSONDecodeError("Invalid \\escape")
    ELSE IF s[end] \in ControlChars THEN JSONDecodeError("Invalid control character at")
    ELSE scanstring(s, end + 1, Append(acc, s[end]))

RECURSIVE scan_once(_, _, _)
RECURSIVE JSONObjectItems(_, _, _, _)
RECURSIVE JSONArrayItems(_, _, _, _)

\* json.decoder.JSONObject: end is the index after the '{'
JSONObject(s, end, depth) ==
    LET e == SkipWS(s, end) IN
    IF At(s, e, "}") THEN Parsed(JObj(<<>>), e + 1)
    ELSE IF ~At(s, e, "\"")
    THEN JSONDecodeError("Expecting property name enclosed in double quotes")
    ELSE JSONObjectItems(s, e + 1, <<>>, depth)

\* the loop of JSONObject: end is the index after the opening quote of a key
JSONObjectItems(s, end, items, depth) ==
    LET key == scanstring(s, end, <<>>) IN
    IF key.exc # "" THEN key
    ELSE LET colon == SkipWS(s, key.end) IN
    IF ~At(s, colon, ":") THEN JSONDecodeError("Expecting ':' delimiter")
    ELSE LET value == scan_once(s, SkipWS(s, colon + 1), depth) IN
    IF value.exc # "" THEN value
    ELSE LET next == SkipWS(s, value.end)
             pairs == DictSet(items, key.val, value.val) IN
    IF At(s, next, "}") THEN Parsed(JObj(pairs), next + 1)
    ELSE IF ~At(s, next, ",") THEN JSONDecodeError("Expecting ',' delimiter")
    ELSE LET quote == SkipWS(s, next + 1) IN
    IF ~At(s, quote, "\"")
    THEN JSONDecodeError("Expecting property name enclosed in double quotes")
    ELSE JSONObjectItems(s, quote + 1, pairs, depth)

\* json.decoder.JSONArray: end is the index after the '['
JSONArray(s, end, depth) ==
    LET e == SkipWS(s, end) IN
    IF At(s, e, "]") THEN Parsed(JArr(<<>>), e + 1)
    ELSE JSONArrayItems(s, e, <<>>, depth)

\* the loop of JSONArray: end is the index of the next value
JSONArrayItems(s, end, values, depth) ==
    LET value == scan_once(s, end, depth) IN
    IF value.exc # "" THEN value
    ELSE LET next == SkipWS(s, value.end) IN
    IF At(s, next, "]") THEN Parsed(JArr(Append(values, value.val)), next + 1)
    ELSE IF ~At(s, next, ",") THEN JSONDecodeError("Expecting ',' delimiter")
    ELSE JSONArrayItems(s, SkipWS(s, next + 1), Append(values, value.val), depth)

\* json.scanner scan_once: depth is the number of arrays and objects open
scan_once(s, idx, depth) ==
    IF idx > Len(s) THEN JSONDecodeError("Expecting value")
    ELSE IF s[idx] = "\"" THEN
        LET str == scanstring(s, idx + 1, <<>>) IN
        IF str.exc # "" THEN str ELSE Parsed(JStr(str.val), str.end)
    ELSE IF s[idx] \in { "{", "[" } THEN
        IF depth >= RecursionLimit THEN RecursionError
        ELSE IF s[idx] = "{" THEN JSONObject(s, idx + 1, depth + 1)
        ELSE JSONArray(s, idx + 1, depth + 1)
    ELSE JSONDecodeError("Expecting value")

\* json.loads(s) = JSONDecoder().decode(s)
json_loads(s) ==
    LET obj == scan_once(s, SkipWS(s, 1), 0) IN
    IF obj.exc # "" THEN obj
    ELSE IF SkipWS(s, obj.end) # Len(s) + 1 THEN JSONDecodeError("Extra data")
    ELSE obj

\* ------------------------------------------------------------------------
\* str() of a parsed value
\* ------------------------------------------------------------------------

\* repr of one character inside a str
ReprChar(c) ==
    CASE c = "\\" -> <<"\\", "\\">>
      [] c = "\n" -> <<"\\", "n">>
      [] c = "\t" -> <<"\\", "t">>
      [] c = "\r" -> <<"\\", "r">>
      [] c = BSP  -> <<"\\", "x", "0", "8">>
      [] OTHER    -> <<c>>

RECURSIVE ReprChars(_)
ReprChars(chars) ==
    LET escaped == { i \in 1..Len(chars) : ReprChar(chars[i]) # <<chars[i]>> } IN
    IF escaped = {} THEN chars
    ELSE Take(chars, Min(escaped) - 1) \o ReprChar(chars[Min(escaped)])
         \o ReprChars(Drop(chars, Min(escaped)))

\* repr(value): no character of Char is a single quote, so a str is quoted
\* with single quotes
RECURSIVE PyRepr(_)
RECURSIVE ReprItems(_, _)
ReprItems(value, i) ==
    IF i > Len(value.v) THEN <<>>
    ELSE (IF i > 1 THEN <<",", " ">> ELSE <<>>)
         \o (IF value.t = "dict"
             THEN <<"'">> \o ReprChars(value.v[i][1]) \o <<"'", ":", " ">>
                  \o PyRepr(value.v[i][2])
             ELSE PyRepr(value.v[i]))
         \o ReprItems(value, i + 1)

PyRepr(value) ==
    CASE value.t = "str"  -> <<"'">> \o ReprChars(value.v) \o <<"'">>
      [] value.t = "list" -> <<"[">> \o ReprItems(value, 1) \o <<"]">>
      [] value.t = "dict" -> <<"{">> \o ReprItems(value, 1) \o <<"}">>

\* str(value)
PyStr(value) == IF value.t = "str" THEN value.v ELSE PyRepr(value)

\* ------------------------------------------------------------------------
\* src/common.py
\* ------------------------------------------------------------------------

TITLE == <<"t", "i", "t", "l", "e">>
BODY == <<"b", "o", "d", "y">>
ELLIPSIS == <<".", ".", ".">>

None == [none |-> TRUE, text |-> <<>>]
Some(text) == [none |-> FALSE, text |-> text]

\* An iteration in which a backslash escapes nothing.
ScanNoEscape(st, char, i) ==
    IF char = "\"" THEN [st EXCEPT !.in_string = ~st.in_string]
    ELSE IF ~st.in_string /\ char = "{"
    THEN [st EXCEPT !.brace_count = st.brace_count + 1]
    ELSE IF ~st.in_string /\ char = "}"
    THEN [st EXCEPT !.brace_count = st.brace_count - 1,
                    !.last_complete_pos =
                        IF st.brace_count - 1 = 0 THEN i ELSE st.last_complete_pos]
    ELSE st

\* one iteration of the loop of attempt_fix_truncated_json (common.py
\* 144-164): st holds the four locals, char is the character at the 1-based
\* index i
ScanChar(st, char, i) ==
    IF st.escape_next THEN [st EXCEPT !.escape_next = FALSE]
    ELSE IF char = "\\" THEN [st EXCEPT !.escape_next = TRUE]
    ELSE IF char = "\"" THEN [st EXCEPT !.in_string = ~st.in_string]
    ELSE IF ~st.in_string /\ char = "{"
    THEN [st EXCEPT !.brace_count = st.brace_count + 1]
    ELSE IF ~st.in_string /\ char = "}"
    THEN [st EXCEPT !.brace_count = st.brace_count - 1,
                    !.last_complete_pos =
                        IF st.brace_count - 1 = 0 THEN i ELSE st.last_complete_pos]
    ELSE st

\* the loop of attempt_fix_truncated_json over the indices lo..hi, in order,
\* from the locals st.  The range is halved and the first half is evaluated
\* before the second (its result is read by the test, which never holds), so
\* that TLC's evaluation stays shallow on long texts.
RECURSIVE ScanBraces(_, _, _, _)
ScanBraces(json_text, lo, hi, st) ==
    IF lo > hi THEN st
    ELSE IF lo = hi THEN ScanChar(st, json_text[lo], lo)
    ELSE LET mid == (lo + hi) \div 2
             first == ScanBraces(json_text, lo, mid, st) IN
         IF first.last_complete_pos > mid THEN first
         ELSE ScanBraces(json_text, mid + 1, hi, first)

\* common.py 131-178
attempt_fix_truncated_json(json_text) ==
    IF ~StartsWith(json_text, <<"[">>) THEN None
    ELSE LET last_complete_pos ==
                 ScanBraces(json_text, 1, Len(json_text),
                            [brace_count |-> 0, in_string |-> FALSE,
                             escape_next |-> FALSE, last_complete_pos |-> -1]
                           ).last_complete_pos IN
    IF last_complete_pos > 0
    THEN LET truncated == Take(json_text, last_complete_pos)
             no_comma == IF EndsWith(truncated, <<",">>)
                         THEN Take(truncated, Len(truncated) - 1) ELSE truncated IN
         Some(IF EndsWith(no_comma, <<"]">>) THEN no_comma ELSE no_comma \o <<"]">>)
    ELSE None

\* re.findall(r'\[.*?\]', s, re.DOTALL)[0]: from the first '[' to the first
\* ']' after it
FirstBracketSpan(s) ==
    LET opens == { i \in 1..Len(s) : s[i] = "[" } IN
    IF opens = {} THEN None
    ELSE LET open == CHOOSE i \in opens : \A k \in opens : i <= k
             closes == { j \in (open + 1)..Len(s) : s[j] = "]" } IN
    IF closes = {} THEN None
    ELSE Some(SubSeq(s, open, CHOOSE j \in closes : \A k \in closes : j <= k))

\* common.py 192-198: append the missing '}' and the ']'
BalanceBraces(json_text) ==
    IF Count(json_text, "{") > Count(json_text, "}")
    THEN LET missing_braces == Count(json_text, "{") - Count(json_text, "}")
             balanced == RStrip(json_text, { ".", "," }) \o Repeat("}", missing_braces) IN
         IF EndsWith(balanced, <<"]">>) THEN balanced ELSE balanced \o <<"]">>
    ELSE json_text

\* common.py 180-203: the value parsed, or the exception raised
extract_json_with_regex(cleaned_response) ==
    LET match == FirstBracketSpan(cleaned_response) IN
    IF match.none THEN JSONDecodeError("No valid JSON array found")
    ELSE json_loads(BalanceBraces(CollapseWhitespace(ReplaceControl(match.text))))

HasKey(idea, key) == \E i \in 1..Len(idea.v) : idea.v[i][1] = key
GetKey(idea, key) == idea.v[CHOOSE i \in 1..Len(idea.v) : idea.v[i][1] = key][2]

StoryIdea(title, body) == [title |-> title, body |-> body]

Returned(ideas) == [exc |-> "", ideas |-> ideas]
Raised(exc) == [exc |-> exc, ideas |-> <<>>]

\* A loop that would skip an element that is no object or lacks a key, and
\* keep the others.
RECURSIVE SkipInvalid(_, _, _)
SkipInvalid(ideas_data, i, ideas) ==
    IF i > Len(ideas_data.v) THEN Returned(ideas)
    ELSE LET idea == ideas_data.v[i] IN
    IF idea.t # "dict" \/ ~HasKey(idea, TITLE) \/ ~HasKey(idea, BODY)
    THEN SkipInvalid(ideas_data, i + 1, ideas)
    ELSE SkipInvalid(ideas_data, i + 1,
            Append(ideas, StoryIdea(Strip(PyStr(GetKey(idea, TITLE))),
                                    Strip(PyStr(GetKey(idea, BODY))))))

\* common.py 110-124: the loop over ideas_data, from element i on
RECURSIVE BuildIdeas(_, _, _)
BuildIdeas(ideas_data, i, ideas) ==
    IF i > Len(ideas_data.v) THEN Returned(ideas)
    ELSE LET idea == ideas_data.v[i] IN
    IF idea.t # "dict" THEN Raised("ValueError")
    ELSE IF ~HasKey(idea, TITLE) \/ ~HasKey(idea, BODY) THEN Raised("KeyError")
    ELSE BuildIdeas(ideas_data, i + 1,
            Append(ideas, StoryIdea(Strip(PyStr(GetKey(idea, TITLE))),
                                    Strip(PyStr(GetKey(idea, BODY))))))

\* A validation that takes the array out of an object that holds one.
UnwrapThenValidate(ideas_data) ==
    IF ideas_data.t = "dict" /\ Len(ideas_data.v) = 1 /\ ideas_data.v[1][2].t = "list"
    THEN BuildIdeas(ideas_data.v[1][2], 1, <<>>)
    ELSE IF ideas_data.t # "list" THEN Raised("ValueError")
    ELSE BuildIdeas(ideas_data, 1, <<>>)

\* common.py 106-124
ValidateStructure(ideas_data) ==
    IF ideas_data.t # "list" THEN Raised("ValueError")
    ELSE BuildIdeas(ideas_data, 1, <<>>)

\* common.py 126: the exceptions parse_story_ideas catches
CaughtByParser == { "JSONDecodeError", "KeyError", "ValueError" }

\* A test that takes every failure of the direct parse for a truncation.
AlwaysTruncated(e, cleaned_response) == TRUE

\* common.py 86-90
LooksTruncated(e, cleaned_response) ==
    e.msg = UNTERMINATED \/ EndsWith(cleaned_response, ELLIPSIS)

\* common.py 83-104: the outcome of the parsing chain on the cleaned text, with
\* the steps taken
ParseChain(cleaned_response) ==
    LET direct == json_loads(cleaned_response)
        regex == extract_json_with_regex(cleaned_response)
        fixed == attempt_fix_truncated_json(cleaned_response)
        repaired == json_loads(fixed.text) IN
    IF direct.exc # "JSONDecodeError"
    THEN [data |-> direct, steps |-> <<"direct">>]
    ELSE IF LooksTruncated(direct, cleaned_response)
    THEN IF ~fixed.none
         THEN IF repaired.exc = ""
              THEN [data |-> repaired, steps |-> <<"direct", "repair">>]
              ELSE [data |-> regex, steps |-> <<"direct", "repair", "regex">>]
         ELSE [data |-> regex, steps |-> <<"direct", "repair", "regex">>]
    ELSE [data |-> regex, steps |-> <<"direct", "regex">>]

\* common.py 126-129: the except clause on the outcome out of the try body;
\* an exception it does not name leaves parse_story_ideas
ExceptClause(chain, out) ==
    [ideas |-> out.ideas,
     exc |-> IF out.exc \in CaughtByParser THEN "" ELSE out.exc,
     caught |-> IF out.exc \in CaughtByParser THEN out.exc ELSE "",
     steps |-> chain.steps,
     data |-> chain.data]

\* common.py 83-129: the try statement, from the outcome of the parsing chain
TryBody(chain) ==
    ExceptClause(chain, IF chain.data.exc # "" THEN Raised(chain.data.exc)
                        ELSE ValidateStructure(chain.data.val))

\* common.py 65-129: what parse_story_ideas returns (ideas) or the exception
\* that leaves it (exc), the steps taken, the value validated (data) and the
\* exception its handler caught (caught)
parse_story_ideas(json_response) == TryBody(ParseChain(CleanResponse(json_response)))

\* ------------------------------------------------------------------------
\* src/evaluators.py: StoryIdeaEvaluator._parse_score
\* ------------------------------------------------------------------------

\* The most characters a score text a judge returns has.
MaxScoreLen == 3

RECURSIVE Pow10(_)
Pow10(n) == IF n = 0 THEN 1 ELSE 10 * Pow10(n - 1)

\* A float x is kept as the integer x * Scale: every decimal numeral of at
\* most MaxScoreLen characters is exact.
Scale == Pow10(MaxScoreLen)

\* \d on the characters of ScoreChar
Digit == { "0", "1", "3", "5", "9" }

\* The characters of a score text: digits, the point, the minus sign, a letter
ScoreChar == Digit \cup { ".", "-", "x" }

DigitValue(c) ==
    CASE c = "0" -> 0 [] c = "1" -> 1 [] c = "3" -> 3 [] c = "5" -> 5 [] c = "9" -> 9

\* int(digits) of a run of digits
RECURSIVE DigitsValue(_)
DigitsValue(digits) ==
    IF digits = <<>> THEN 0
    ELSE 10 * DigitsValue(Take(digits, Len(digits) - 1)) + DigitValue(digits[Len(digits)])

\* float(numeral) of digits with an optional fraction
PyFloat(numeral) ==
    LET points == { i \in 1..Len(numeral) : numeral[i] = "." } IN
    IF points = {} THEN DigitsValue(numeral) * Scale
    ELSE LET point == Min(points)
             fraction == Drop(numeral, point) IN
         DigitsValue(Take(numeral, point - 1)) * Scale
         + (DigitsValue(fraction) * Scale) \div Pow10(Len(fraction))

\* \d+ from the digit at index i: the index of its last digit
RECURSIVE DigitsEnd(_, _)
DigitsEnd(text, i) ==
    IF i + 1 <= Len(text) /\ text[i + 1] \in Digit THEN DigitsEnd(text, i + 1) ELSE i

\* A search that would start its match at the last digit of the text.
LastDigit(text, pos) == Max({ i \in pos..Len(text) : text[i] \in Digit })

\* the index of the first digit from pos on, where the next match starts
MatchStart(text, pos) == Min({ i \in pos..Len(text) : text[i] \in Digit })

\* re.findall(r'(\d+(?:\.\d+)?)', text), scanning from index pos
RECURSIVE findall(_, _)
findall(text, pos) ==
    IF \A i \in pos..Len(text) : text[i] \notin Digit THEN <<>>
    ELSE LET start == MatchStart(text, pos)
             whole == DigitsEnd(text, start)
             end == IF whole + 2 <= Len(text) /\ text[whole + 1] = "."
                       /\ text[whole + 2] \in Digit
                    THEN DigitsEnd(text, whole + 2) ELSE whole IN
         <<SubSeq(text, start, end)>> \o findall(text, end + 1)

\* what a judge returns for a dimension: a text, or a value that is already a
\* number
PyText(text) == [type |-> "str", text |-> text, number |-> 0]
PyNumber(type, number) == [type |-> type, text |-> <<>>, number |-> number]

\* evaluators.py 250: the fallback score
DEFAULT_SCORE == 5 * Scale

\* evaluators.py 245: min(max(score, 0.0), 10.0)
Clamp(number) ==
    LET raised == IF number > 0 * Scale THEN number ELSE 0 * Scale IN
    IF raised < 10 * Scale THEN raised ELSE 10 * Scale

\* evaluators.py 234-250
_parse_score(score_string) ==
    IF score_string.type \in { "int", "float" } THEN score_string.number
    ELSE LET matches == findall(score_string.text, 1) IN
         IF matches # <<>> THEN Clamp(PyFloat(matches[1])) ELSE DEFAULT_SCORE

\* The values a judge returns: every text of at most MaxScoreLen characters,
\* and numbers inside and outside the range
JudgeTexts == { PyText(text) : text \in UNION { [1..k -> ScoreChar] : k \in 0..MaxScoreLen } }
JudgeNumbers ==
    { PyNumber("int", n * Scale) : n \in { -3, 0, 1, 5, 10, 15 } }
    \cup { PyNumber("float", (n * Scale) \div 2) : n \in { -1, 1, 15, 21 } }

\* ------------------------------------------------------------------------
\* Python float arithmetic: IEEE 754 binary64, round to nearest, ties to even
\* ------------------------------------------------------------------------

\* A natural number too wide for one integer is the sequence of its digits in
\* base 2^15, the least significant first, with no leading zero digit.
LimbBits == 15
LimbBase == 2 ^ LimbBits

\* The significand of a binary64 value has 53 bits.
Precision == 53

\* A non-negative float x is kept as the natural number x * 2^(15 * FractionLimbs):
\* exact for every binary64 value that is a multiple of 2^-(15 * FractionLimbs).
FractionLimbs == 8

Limb(a, i) == IF i <= Len(a) THEN a[i] ELSE 0

Trim(a) ==
    LET used == { i \in 1..Len(a) : a[i] # 0 } IN
    IF used = {} THEN <<>> ELSE SubSeq(a, 1, Max(used))

RECURSIVE BigOfInt(_)
BigOfInt(n) == IF n = 0 THEN <<>> ELSE <<n % LimbBase>> \o BigOfInt(n \div LimbBase)

RECURSIVE AddLimbs(_, _, _, _)
AddLimbs(a, b, i, carry) ==
    IF i > Max({ Len(a), Len(b) }) THEN (IF carry = 0 THEN <<>> ELSE <<carry>>)
    ELSE LET t == Limb(a, i) + Limb(b, i) + carry IN
         <<t % LimbBase>> \o AddLimbs(a, b, i + 1, t \div LimbBase)

BigAdd(a, b) == AddLimbs(a, b, 1, 0)

\* a * k for one digit k
RECURSIVE MulLimbs(_, _, _, _)
MulLimbs(a, k, i, carry) ==
    IF i > Len(a) THEN (IF carry = 0 THEN <<>> ELSE <<carry>>)
    ELSE LET t == (a[i] * k) + carry IN
         <<t % LimbBase>> \o MulLimbs(a, k, i + 1, t \div LimbBase)

BigMulSmall(a, k) == Trim(MulLimbs(a, k, 1, 0))

\* a * 2^(15 * n)
BigShift(a, n) == IF a = <<>> THEN <<>> ELSE [i \in 1..n |-> 0] \o a

RECURSIVE MulRows(_, _, _)
MulRows(a, b, i) ==
    IF i > Len(b) THEN <<>>
    ELSE BigAdd(BigShift(BigMulSmall(a, b[i]), i - 1), MulRows(a, b, i + 1))

BigMul(a, b) == MulRows(a, b, 1)

\* long division of a by d, from the most significant digit i down
RECURSIVE DivLimbs(_, _, _, _)
DivLimbs(a, d, i, rem) ==
    IF i = 0 THEN [quot |-> <<>>, rem |-> rem]
    ELSE LET t == (rem * LimbBase) + a[i]
             rest == DivLimbs(a, d, i - 1, t % d) IN
         [quot |-> rest.quot \o <<t \div d>>, rem |-> rest.rem]

BigDivSmall(a, d) ==
    LET r == DivLimbs(a, d, Len(a), 0) IN [quot |-> Trim(r.quot), rem |-> r.rem]

BigLess(a, b) ==
    IF Len(a) # Len(b) THEN Len(a) < Len(b)
    ELSE LET differ == { i \in 1..Len(a) : a[i] # b[i] } IN
         differ # {} /\ a[Max(differ)] < b[Max(differ)]

BigLeq(a, b) == a = b \/ BigLess(a, b)

\* the number of bits of a; bit i of a, the least significant being bit 1
BitLength(a) ==
    IF a = <<>> THEN 0
    ELSE (LimbBits * (Len(a) - 1)) + Max({ k \in 1..LimbBits : a[Len(a)] >= 2 ^ (k - 1) })

Bit(a, i) == (Limb(a, ((i - 1) \div LimbBits) + 1) \div (2 ^ ((i - 1) % LimbBits))) % 2

\* a with its r lowest bits cleared
ClearLow(a, r) ==
    [i \in 1..Len(a) |->
        IF i <= (r \div LimbBits) THEN 0
        ELSE IF i = (r \div LimbBits) + 1 THEN a[i] - (a[i] % (2 ^ (r % LimbBits)))
        ELSE a[i]]

\* 2^r
BigPow2(r) == [i \in 1..(r \div LimbBits) |-> 0] \o <<2 ^ (r % LimbBits)>>

\* The binary64 value nearest to a + f, where 0 <= f < 1 and sticky says
\* whether f is positive: the bits below the 53 most significant are dropped,
\* rounding to nearest and a tie to the even significand.
RoundFloat(a, sticky) ==
    IF a = <<>> \/ BitLength(a) <= Precision THEN a
    ELSE LET r == BitLength(a) - Precision
             half == Bit(a, r) = 1
             below == sticky \/ \E i \in 1..(r - 1) : Bit(a, i) = 1
             odd == Bit(a, r + 1) = 1
             down == ClearLow(a, r) IN
         IF half /\ (below \/ odd) THEN BigAdd(down, BigPow2(r)) ELSE down

\* the float nearest to num / den: a literal, float(text), float(int)
FloatOf(num, den) ==
    LET q == BigDivSmall(BigShift(BigOfInt(num), FractionLimbs), den) IN
    RoundFloat(q.quot, q.rem # 0)

\* x + y, x * y and x / d of floats x, y and a positive integer d
FloatAdd(x, y) ==
    IF x = <<>> THEN y ELSE IF y = <<>> THEN x ELSE RoundFloat(BigAdd(x, y), FALSE)

FloatMul(x, y) ==
    IF x = <<>> \/ y = <<>> THEN <<>>
    ELSE LET product == BigMul(x, y) IN
         RoundFloat(Drop(product, FractionLimbs),
                    \E i \in 1..Min({ FractionLimbs, Len(product) }) : product[i] # 0)

FloatDiv(x, d) ==
    IF x = <<>> THEN <<>>
    ELSE LET q == BigDivSmall(x, d) IN RoundFloat(q.quot, q.rem # 0)

\* the float of a score kept as score * Scale
Float(scaled) == FloatOf(scaled, Scale)

\* ------------------------------------------------------------------------
\* src/evaluators.py: StoryIdeaEvaluator.evaluate, the scores of a result
\* ------------------------------------------------------------------------

\* evaluators.py 116-164: the dimensions, in the order their judges are called
\* and their scores parsed
Dimensions ==
    <<"novelty", "feasibility", "structure", "detail", "logical_coherence", "genre",
      "engagement">>

Dimension == { Dimensions[i] : i \in 1..Len(Dimensions) }

\* evaluators.py 167-175
weights ==
    [novelty |-> FloatOf(18, 100),
     feasibility |-> FloatOf(12, 100),
     structure |-> FloatOf(8, 100),
     detail |-> FloatOf(18, 100),
     logical_coherence |-> FloatOf(16, 100),
     genre |-> FloatOf(10, 100),
     engagement |-> FloatOf(18, 100)]

\* evaluators.py 158-164: the score of every dimension, from what its judge
\* returned
ParseScores(replies) == [d \in Dimension |-> Float(_parse_score(replies[d]))]

\* the terms score * weight of the dimensions of order, added left to right
RECURSIVE AddTerms(_, _, _, _)
AddTerms(scores, order, i, total) ==
    IF i > Len(order) THEN total
    ELSE AddTerms(scores, order, i + 1,
                  FloatAdd(total, FloatMul(scores[order[i]], weights[order[i]])))

WeightedSum(scores, order) ==
    AddTerms(scores, order, 2, FloatMul(scores[order[1]], weights[order[1]]))

\* evaluators.py 177-185
overall_score(scores) == WeightedSum(scores, Dimensions)

\* evaluators.py 216-226: the result; its feedback is kept as the dimensions
\* it reports, in the order it reports them (188-213)
EvaluationResult(scores) ==
    [novelty_score |-> scores["novelty"],
     feasibility_score |-> scores["feasibility"],
     structure_score |-> scores["structure"],
     detail_score |-> scores["detail"],
     logical_coherence_score |-> scores["logical_coherence"],
     genre_score |-> scores["genre"],
     engagement_score |-> scores["engagement"],
     overall_score |-> overall_score(scores),
     feedback |-> Dimensions]

\* f'{metric_name}_score'
ScoreField(metric_name) ==
    CASE metric_name = "novelty" -> "novelty_score"
      [] metric_name = "feasibility" -> "feasibility_score"
      [] metric_name = "structure" -> "structure_score"
      [] metric_name = "detail" -> "detail_score"
      [] metric_name = "logical_coherence" -> "logical_coherence_score"
      [] metric_name = "genre" -> "genre_score"
      [] metric_name = "engagement" -> "engagement_score"

\* What the seven judges return in one evaluation: the same value from every
\* judge, for every value that is not negative; and every mix of two texts.
UniformJudgements ==
    { [d \in Dimension |-> v] : v \in { j \in JudgeTexts \cup JudgeNumbers : _parse_score(j) >= 0 } }
MixedJudgements == [Dimension -> { PyText(<<"1">>), PyText(<<"9">>) }]

\* ------------------------------------------------------------------------
\* src/evaluators.py: the cache of StoryIdeaEvaluator, the metric functions
\* ------------------------------------------------------------------------

BrainstormRequest(genre, platform, requirements_section) ==
    [genre |-> genre, platform |-> platform, requirements_section |-> requirements_section]

\* A key that leaves the requirements out.
KeyWithoutRequirements(story_ideas, request) ==
    [ideas |-> [i \in 1..Len(story_ideas) |->
                  [title |-> story_ideas[i].title, body |-> story_ideas[i].body]],
     genre |-> request.genre,
     platform |-> request.platform,
     requirements |-> <<>>]

\* evaluators.py 93-102: the md5 digest of the JSON text of the content, kept
\* as the content it is the digest of
_get_cache_key(story_ideas, request) ==
    [ideas |-> [i \in 1..Len(story_ideas) |->
                  [title |-> story_ideas[i].title, body |-> story_ideas[i].body]],
     genre |-> request.genre,
     platform |-> request.platform,
     requirements |-> request.requirements_section]

NoKey == [ideas |-> <<>>, genre |-> "", platform |-> "", requirements |-> <<>>]

\* A lookup that finds no key.
NeverInDict(items, key) == FALSE

\* key in d, d[key] and the keys of a dict kept as its items in insertion order
InDict(items, key) == \E i \in 1..Len(items) : items[i][1] = key
DictGet(items, key) == items[CHOOSE i \in 1..Len(items) : items[i][1] = key][2]
Keys(items) == { items[i][1] : i \in 1..Len(items) }

\* The cache file: absent, the pickle of a dict, or cut short by a failed dump
NoFile == [state |-> "absent", cache |-> <<>>]
Pickle(cache) == [state |-> "pickle", cache |-> cache]
Truncated == [state |-> "truncated", cache |-> <<>>]

\* A load that finds nothing in the file.
LoadNothing(file) == <<>>

\* evaluators.py 74-83: the dict of the file; {} when there is no file or
\* pickle.load raises
_load_cache(file) == IF file.state = "pickle" THEN file.cache ELSE <<>>

\* How the writing of the file goes: it is written, or pickle.dump raises
\* after open() has emptied the file. (When open() itself raises the file
\* stays as it was: _save_cache has the case, the runs do not draw it.)
IOOutcome == { "written", "dump raises" }

\* A save that would keep the entries the file holds and the cache lacks.
MergingSave(file, cache, io) ==
    IF io = "written"
    THEN Pickle(cache \o SelectSeq(_load_cache(file), LAMBDA item : ~InDict(cache, item[1])))
    ELSE IF io = "open raises" THEN file ELSE Truncated

\* evaluators.py 85-91: the file after self._save_cache(); the exception of a
\* failed write is caught and reported
_save_cache(file, cache, io) ==
    IF io = "written" THEN Pickle(cache)
    ELSE IF io = "open raises" THEN file ELSE Truncated

\* What evaluate and the metric functions are called with: one list of ideas,
\* with and without requirements.
Inputs ==
    { [ideas |-> <<StoryIdea(<<"A">>, <<"B">>)>>,
       request |-> BrainstormRequest("g", "p", requirements)] :
         requirements \in { <<>>, <<"C">> } }

Fingerprint == { _get_cache_key(input.ideas, input.request) : input \in Inputs }

\* What the seven judges reply in one evaluation: one of these
JudgeReplies == <<[d \in Dimension |-> PyText(<<"3">>)], [d \in Dimension |-> PyText(<<"9">>)]>>

\* Steps in which each score is parsed as soon as its judge has replied.
ParseAsJudged ==
    <<"novelty", "_parse_score", "feasibility", "_parse_score", "structure", "_parse_score",
      "detail", "_parse_score", "logical_coherence", "_parse_score", "genre", "_parse_score",
      "engagement", "_parse_score", "cache", "_save_cache">>

\* The steps of evaluate on a cache miss that ends at step n: the calls of the
\* judges (116-155) in the order of the code, then the parsing of the scores
\* (158-164), the store (229) and the save (230)
Steps == Dimensions \o <<"_parse_score", "cache", "_save_cache">>
StepsTo(n) == SubSeq(Steps, 1, n)

\* Groups in which genre is counted with feasibility.
OtherGroups ==
    [creativity |-> <<"novelty", "engagement">>,
     feasibility |-> <<"feasibility", "structure", "genre">>,
     content_quality |-> <<"detail", "logical_coherence">>]

\* evaluators.py 260-269: self.groups and self.single_group
groups ==
    [creativity |-> <<"novelty", "engagement">>,
     feasibility |-> <<"feasibility", "structure">>,
     content_quality |-> <<"detail", "logical_coherence", "genre">>]

single_group == [overall |-> Dimensions]

GroupNames == { "creativity", "feasibility", "content_quality" }

\* evaluators.py 316-328: the metric functions of get_all_group_metrics, as
\* the metric_names each is created with
MetricNames(group_name) ==
    IF group_name = "overall" THEN single_group[group_name] ELSE groups[group_name]

\* sum(group_scores): 0 + the scores, left to right
RECURSIVE SumScores(_, _, _, _)
SumScores(evaluation, metric_names, i, total) ==
    IF i > Len(metric_names) THEN total
    ELSE SumScores(evaluation, metric_names, i + 1,
                   FloatAdd(total, evaluation[ScoreField(metric_names[i])]))

\* evaluators.py 294-308: what group_metric returns for the result of evaluate
GroupScore(group_name, metric_names, evaluation) ==
    IF group_name = "overall" THEN FloatDiv(evaluation.overall_score, 10)
    ELSE IF metric_names # <<>>
    THEN FloatDiv(FloatDiv(SumScores(evaluation, metric_names, 1, <<>>), Len(metric_names)), 10)
    ELSE <<>>

\* evaluators.py 158-226: the result evaluate builds from each of the replies
Results ==
    <<EvaluationResult(ParseScores(JudgeReplies[1])),
      EvaluationResult(ParseScores(JudgeReplies[2]))>>

\* evaluators.py 294-308: what each metric function returns for each of them
Scores ==
    [overall |->
        <<GroupScore("overall", MetricNames("overall"), Results[1]),
          GroupScore("overall", MetricNames("overall"), Results[2])>>,
     creativity |->
        <<GroupScore("creativity", MetricNames("creativity"), Results[1]),
          GroupScore("creativity", MetricNames("creativity"), Results[2])>>,
     feasibility |->
        <<GroupScore("feasibility", MetricNames("feasibility"), Results[1]),
          GroupScore("feasibility", MetricNames("feasibility"), Results[2])>>,
     content_quality |->
        <<GroupScore("content_quality", MetricNames("content_quality"), Results[1]),
          GroupScore("content_quality", MetricNames("content_quality"), Results[2])>>]

\* ------------------------------------------------------------------------
\* The texts the generation call returns
\* ------------------------------------------------------------------------

\* The most elements an array the generator writes has.
MaxElems == 2

Quoted(chars) == <<"\"">> \o chars \o <<"\"">>

\* {"title":<title>,"body":<body>} with the two values as written
ObjectText(title, body) ==
    <<"{">> \o Quoted(TITLE) \o <<":">> \o title \o <<",">>
            \o Quoted(BODY) \o <<":">> \o body \o <<"}">>

\* The array elements the generator writes: complete objects, objects whose
\* strings hold brackets, braces, quotes, backticks or runs of spaces, objects
\* with an empty or a missing field, values that are no object, a run of
\* '[' as deep as the scanner goes, and an object that lacks a comma.
Elements ==
    << ObjectText(Quoted(<<"A">>), Quoted(<<"B">>)),
       ObjectText(Quoted(<<"C">>), Quoted(<<"D">>)),
       ObjectText(Quoted(<<"{", "\\", "\"">>), Quoted(<<"}", ",">>)),
       ObjectText(Quoted(<<" ", "A", " ", " ", "B">>), Quoted(<<"C", "\\", "n">>)),
       ObjectText(Quoted(<<"A", "]">>), Quoted(<<"B">>)),
       ObjectText(Quoted(BACKTICKS), <<"[">> \o Quoted(<<"B">>) \o <<"]">>),
       ObjectText(Quoted(<<>>), Quoted(<<"B">>)),
       ObjectText(Quoted(<<"A">>), Quoted(<<" ">>)),
       <<"{">> \o Quoted(TITLE) \o <<":">> \o Quoted(<<"A">>) \o <<"}">>,
       <<"{">> \o Quoted(BODY) \o <<":">> \o Quoted(<<"B">>) \o <<"}">>,
       Quoted(<<"A">>),
       Repeat("[", RecursionLimit),
       <<"{">> \o Quoted(TITLE) \o <<":">> \o Quoted(<<"A">>) \o <<" ">>
               \o Quoted(BODY) \o <<":">> \o Quoted(<<"B">>) \o <<"}">> >>

\* The elements of the arrays that are cut short: the first three
Plain == 1..3

\* What follows the last element: the closing bracket, nothing, an ellipsis
Closings == { <<"]">>, <<>>, ELLIPSIS, <<"]">> \o ELLIPSIS }

\* The opening fence markers: none, ```json, ``` and ```js, each on its own line
Fences == { <<>>, FENCE_JSON \o <<"\n">>, BACKTICKS \o <<"\n">>,
            BACKTICKS \o <<"j", "s", "\n">> }

\* every sequence of at most n members of the set S
SeqsUpTo(S, n) == UNION { [1..k -> S] : k \in 0..n }

\* the texts of the elements e (indices in Elements), separated by commas
RECURSIVE Joined(_, _)
Joined(e, comma) ==
    IF e = <<>> THEN <<>>
    ELSE Elements[Head(e)] \o (IF Len(e) > 1 THEN comma ELSE <<>>) \o Joined(Tail(e), comma)

\* the array written on one line
Document(e, closing) == <<"[">> \o Joined(e, <<",">>) \o closing

\* the array written with one element per line, indented
Indented(e, closing) ==
    <<"[", "\n", " ", " ">> \o Joined(e, <<",", "\n", " ", " ">>) \o <<"\n">> \o closing

Layout(indent, e, closing) == IF indent THEN Indented(e, closing) ELSE Document(e, closing)

\* the opening of an object that holds the array under the key "ideas"
IDEAS == <<"i", "d", "e", "a", "s">>
WRAPPER == <<"{">> \o Quoted(IDEAS) \o <<":">>

\* text inside the fence opened by open; no fence when open is empty
Wrap(open, text) ==
    IF open = <<>> THEN text ELSE open \o text \o <<"\n">> \o BACKTICKS

\* ------------------------------------------------------------------------
\* src/repair_json.py
\* ------------------------------------------------------------------------

\* json.encoder: one character of a str inside its quotes; with ensure_ascii
\* a character outside ASCII is written as its \uXXXX escape
EncodeChar(c, ensure_ascii) ==
    CASE c = "\"" -> <<"\\", "\"">>
      [] c = "\\" -> <<"\\", "\\">>
      [] c = "\n" -> <<"\\", "n">>
      [] c = "\t" -> <<"\\", "t">>
      [] c = BSP  -> <<"\\", "b">>
      [] c \in NonAscii /\ ensure_ascii -> <<"\\", "u">> \o Hex(c)
      [] OTHER -> <<c>>

RECURSIVE EncodeChars(_, _)
EncodeChars(chars, ensure_ascii) ==
    IF chars = <<>> THEN <<>>
    ELSE EncodeChar(Head(chars), ensure_ascii) \o EncodeChars(Tail(chars), ensure_ascii)

\* the items of an array from item i on, each after the separator
RECURSIVE DumpItems(_, _, _, _)
DumpItems(obj, ensure_ascii, separator, i) ==
    IF i > Len(obj.v) THEN <<>>
    ELSE (IF i > 1 THEN separator ELSE <<>>)
         \o Quoted(EncodeChars(obj.v[i].v, ensure_ascii))
         \o DumpItems(obj, ensure_ascii, separator, i + 1)

\* json.dumps(obj, ensure_ascii=ensure_ascii) of a str or a list of str
json_dumps(obj, ensure_ascii) ==
    IF obj.t = "str" THEN Quoted(EncodeChars(obj.v, ensure_ascii))
    ELSE <<"[">> \o DumpItems(obj, ensure_ascii, <<",", " ">>, 1) \o <<"]">>

\* json.dumps(obj, ensure_ascii=ensure_ascii, indent=indent), indent > 0
json_dumps_indent(obj, ensure_ascii, indent) ==
    IF obj.t = "str" THEN Quoted(EncodeChars(obj.v, ensure_ascii))
    ELSE IF obj.v = <<>> THEN <<"[", "]">>
    ELSE <<"[", "\n">> \o Repeat(" ", indent)
         \o DumpItems(obj, ensure_ascii, <<",", "\n">> \o Repeat(" ", indent), 1)
         \o <<"\n", "]">>

\* json_repair.repair_json(json_str, ensure_ascii=ensure_ascii) on a text that
\* json.loads reads: the library dumps the value read
repair_json(json_str, ensure_ascii) == json_dumps(json_loads(json_str).val, ensure_ascii)

\* repair_json.py 33-47: what main prints for the arguments and the input
main(args, input_text) ==
    LET repaired_json == repair_json(input_text, args.ensure_ascii) IN
    IF args.indent > 0
    THEN json_dumps_indent(json_loads(repaired_json).val, ~args.ensure_ascii, args.indent)
         \o <<"\n">>
    ELSE repaired_json \o <<"\n">>

\* The most characters of a string, and the most strings of an array, in the
\* documents given to repair_json.py.
MaxText == 2

\* The documents: a string or an array of one-character strings, over a
\* letter and the characters outside ASCII
ToolChars == { "A" } \cup NonAscii
Documents ==
    { JStr(chars) : chars \in SeqsUpTo(ToolChars, MaxText) }
    \cup { JArr([i \in 1..Len(chars) |-> JStr(<<chars[i]>>)]) :
             chars \in SeqsUpTo(ToolChars, MaxText) }

\* The texts of the input: each document written with and without escapes
InputTexts == { json_dumps(document, escaped) : document \in Documents, escaped \in BOOLEAN }

\* repair_json.py 18-21: the arguments; --indent defaults to 2
DEFAULT_INDENT == 2
Args == [ensure_ascii : BOOLEAN, indent : { 0, DEFAULT_INDENT, 4 }]

\* ------------------------------------------------------------------------
\* src/use_optimized_modules.py: RequirementsVariator
\* ------------------------------------------------------------------------

\* The number of combinations in the pool (scaled down: the code draws 1000
\* and keeps the distinct ones), and the most requests of one batch.
PoolSize == 3
MaxCount == 4

\* use_optimized_modules.py 74-103: the pool holds each combination once
Combinations == 1..PoolSize

\* random.shuffle(pool): every order of the members of the pool
Shuffles(pool) ==
    { p \in [1..Len(pool) -> { pool[i] : i \in 1..Len(pool) }] :
        \A i, j \in 1..Len(pool) : i # j => p[i] # p[j] }

\* use_optimized_modules.py 105-115: the outcomes of get_unique_requirements
\* on the variator v, each the string returned and the variator after it
get_unique_requirements(v) ==
    IF v.current_index >= Len(v.combination_pool)
    THEN { [requirements |-> shuffled[1],
            variator |-> [combination_pool |-> shuffled, current_index |-> 1]] :
             shuffled \in Shuffles(v.combination_pool) }
    ELSE { [requirements |-> v.combination_pool[v.current_index + 1],
            variator |-> [v EXCEPT !.current_index = v.current_index + 1]] }

\* use_optimized_modules.py 117-127: the outcomes of get_batch_requests, each
\* the requests returned, in order, and the variator after them
RECURSIVE get_batch_requests(_, _, _, _)
get_batch_requests(v, genre, platform, count) ==
    IF count <= 0 THEN { [requests |-> <<>>, variator |-> v] }
    ELSE UNION {
           { [requests |-> <<BrainstormRequest(genre, platform, first.requirements)>>
                             \o rest.requests,
              variator |-> rest.variator] :
               rest \in get_batch_requests(first.variator, genre, platform, count - 1) } :
           first \in get_unique_requirements(v) }

\* ------------------------------------------------------------------------
\* The state machine: BrainstormModule.forward
\* ------------------------------------------------------------------------

VARIABLES
    pc,         \* "idle", "generated", "parsed" or "raised"
    response,   \* response.story_ideas, the text the generation call returned
    llm,        \* how the generator wrote it: elements, closing, fence, layout, cut
    ideas,      \* what parse_story_ideas returned
    outcome,    \* the exception that left or was caught, the steps taken and
                \* the value ideas_data of the call
    epc,        \* "idle", "judged" or "scored"
    score_str,  \* the value a judge returned for its dimension
    score,      \* what _parse_score returned for it
    rpc,        \* "idle", "judged" or "evaluated"
    judgements, \* the value each of the seven judges returned
    result,     \* the EvaluationResult built from them
    metric,     \* what each metric function returns for that result
    cache_file, \* the cache file the evaluators share
    evaluators, \* of each evaluator: whether it is constructed, and self.cache
    calls,      \* of each worker: the call of evaluate it is in, if any
    returned,   \* how the call that has just ended has ended, and the keys
                \* the file has lost by it
    succeeded,  \* of each evaluator and fingerprint: the results that calls
                \* of evaluate have returned
    overlapped, \* of each evaluator: whether a call of evaluate on it has
                \* begun while another was waiting for its judges
    ncalls,     \* the number of calls made
    tpc,        \* repair_json.py: "idle", "started" or "done"
    args,       \* its arguments
    input_text, \* the text it reads
    stdout,     \* what it has printed
    variator,   \* the RequirementsVariator: combination_pool, current_index
    requests,   \* the requests its last get_batch_requests returned
    fpc,        \* attempt_fix_truncated_json: "idle", "called" or "returned"
    json_text,  \* the text it is called with
    truncated,  \* what it returns
    self_cache, \* self.cache of the evaluator that is called from one thread
    evaluations \* the calls of evaluate on it so far: what each was called
                \* with, what it sent to the judges and what it returned

vars ==
    <<pc, response, llm, ideas, outcome, epc, score_str, score, rpc, judgements, result,
      metric, cache_file, evaluators, calls, returned, succeeded, overlapped, ncalls,
      tpc, args, input_text, stdout, variator, requests, fpc, json_text, truncated,
      self_cache, evaluations>>

parser_vars == <<pc, response, llm, ideas, outcome>>
evaluator_vars == <<epc, score_str, score>>
result_vars == <<rpc, judgements, result, metric>>
cache_vars == <<cache_file, evaluators, calls, returned, succeeded, overlapped, ncalls>>
repair_vars == <<tpc, args, input_text, stdout>>
variator_vars == <<variator, requests>>
fix_vars == <<fpc, json_text, truncated>>
judge_vars == <<self_cache, evaluations>>
tool_vars == <<repair_vars, variator_vars, fix_vars, judge_vars>>

NoOutcome == [exc |-> "", caught |-> "", steps |-> <<>>, data |-> Parsed(<<>>, 0)]

ParserIdle ==
    /\ pc = "idle"
    /\ response = <<>>
    /\ llm = [elems |-> <<>>, closing |-> <<>>, fence |-> <<>>, indent |-> FALSE,
              cut |-> 0, whole |-> TRUE, wrapper |-> <<>>]
    /\ ideas = <<>>
    /\ outcome = NoOutcome

EvaluatorIdle ==
    /\ epc = "idle"
    /\ score_str = PyText(<<>>)
    /\ score = DEFAULT_SCORE

NoResult ==
    [novelty_score |-> <<>>, feasibility_score |-> <<>>, structure_score |-> <<>>,
     detail_score |-> <<>>, logical_coherence_score |-> <<>>, genre_score |-> <<>>,
     engagement_score |-> <<>>, overall_score |-> <<>>, feedback |-> <<>>]

NoMetric == [group_name \in { "overall" } \cup GroupNames |-> <<>>]

ResultIdle ==
    /\ rpc = "idle"
    /\ judgements = [d \in Dimension |-> PyText(<<>>)]
    /\ result = NoResult
    /\ metric = NoMetric

\* The evaluators, and the threads that call them (optimize_brainstorm.py
\* 549: num_threads); a call goes to the first thread that is free
Evaluator == { "e1", "e2" }
Worker == { "w1", "w2" }
FirstFree(w) == w = "w1" \/ calls["w1"].phase = "judging"

\* The functions the threads call: evaluate itself and two of the metric
\* functions; the judges whose failure is followed: the first and the last
Called == { "evaluate", "overall", "content_quality" }
MetricsCalled == Called \ { "evaluate" }
FailingJudges == { 1, Len(Dimensions) }

\* The most calls of evaluate and of the metric functions in a run.
MaxCalls == 3

NotCalling == [phase |-> "idle", self |-> "", key |-> NoKey, via |-> "", earlier |-> {}]

NothingReturned ==
    [self |-> "", key |-> NoKey, via |-> "", outcome |-> "none", steps |-> <<>>,
     value |-> NoResult, score |-> <<>>, earlier |-> {}, lost |-> {}]

\* The first evaluator has been constructed when there was no cache file
\* (evaluators.py 59-72, 74-83); the second has not been constructed yet.
CacheIdle ==
    /\ cache_file = NoFile
    /\ evaluators = [e \in Evaluator |->
                        [constructed |-> e = "e1", cache |-> _load_cache(NoFile)]]
    /\ calls = [w \in Worker |-> NotCalling]
    /\ returned = NothingReturned
    /\ succeeded = [e \in Evaluator |-> [key \in Fingerprint |-> {}]]
    /\ overlapped = [e \in Evaluator |-> FALSE]
    /\ ncalls = 0

RepairIdle ==
    /\ tpc = "idle"
    /\ args = [ensure_ascii |-> FALSE, indent |-> DEFAULT_INDENT]
    /\ input_text = <<>>
    /\ stdout = <<>>

VariatorIdle ==
    /\ variator = [combination_pool |-> [i \in 1..PoolSize |-> i], current_index |-> 0]
    /\ requests = <<>>

FixIdle ==
    /\ fpc = "idle"
    /\ json_text = <<>>
    /\ truncated = None

\* evaluators.py 72: the evaluator has been constructed without a cache file
JudgeIdle ==
    /\ self_cache = _load_cache(NoFile)
    /\ evaluations = <<>>

ToolIdle == RepairIdle /\ VariatorIdle /\ FixIdle /\ JudgeIdle

Init == ParserIdle /\ EvaluatorIdle /\ ResultIdle /\ CacheIdle /\ ToolIdle

\* self.generate_ideas(...) returns a whole text
GenerateWhole ==
    /\ pc = "idle"
    /\ \E e \in SeqsUpTo(1..Len(Elements), MaxElems), closing \in Closings, fence \in Fences,
          indent \in BOOLEAN :
         LET text == Wrap(fence, Layout(indent, e, closing)) IN
         /\ response' = text
         /\ llm' = [elems |-> e, closing |-> closing, fence |-> fence, indent |-> indent,
                    cut |-> Len(text), whole |-> TRUE, wrapper |-> <<>>]
    /\ pc' = "generated"
    /\ UNCHANGED <<ideas, outcome, evaluator_vars, result_vars, cache_vars, tool_vars>>

\* self.generate_ideas(...) returns a text cut short by the token limit
\* (MAX_TOKENS_GENERATION), possibly with an ellipsis in place of the rest
GenerateTruncated ==
    /\ pc = "idle"
    /\ \E e \in SeqsUpTo(Plain, MaxElems), fence \in { <<>>, FENCE_JSON \o <<"\n">> },
          dots \in { <<>>, ELLIPSIS } :
         LET text == Wrap(fence, Document(e, <<"]">>)) IN
         \E cut \in 0..(Len(text) - 1) :
            /\ response' = Take(text, cut) \o dots
            /\ llm' = [elems |-> e, closing |-> dots, fence |-> fence, indent |-> FALSE,
                       cut |-> cut, whole |-> FALSE, wrapper |-> <<>>]
    /\ pc' = "generated"
    /\ UNCHANGED <<ideas, outcome, evaluator_vars, result_vars, cache_vars, tool_vars>>

\* self.generate_ideas(...) returns a whole text that is no array: an object
\* that holds the array under a key, or one element by itself
GenerateWrapped ==
    /\ pc = "idle"
    /\ \E e \in SeqsUpTo(1..Len(Elements), MaxElems), wrapper \in { <<>>, WRAPPER } :
         LET text == IF wrapper = <<>> THEN Elements[e[1]]
                     ELSE wrapper \o Document(e, <<"]">>) \o <<"}">> IN
         /\ wrapper = <<>> => Len(e) = 1
         /\ response' = text
         /\ llm' = [elems |-> e, closing |-> IF wrapper = <<>> THEN <<>> ELSE <<"]", "}">>,
                    fence |-> <<>>, indent |-> FALSE, cut |-> Len(text), whole |-> TRUE,
                    wrapper |-> wrapper]
    /\ pc' = "generated"
    /\ UNCHANGED <<ideas, outcome, evaluator_vars, result_vars, cache_vars, tool_vars>>

\* brainstorm_module.py 47: ideas = parse_story_ideas(response.story_ideas)
Forward ==
    /\ pc = "generated"
    /\ \E r \in { parse_story_ideas(response) } :
         /\ ideas' = r.ideas
         /\ outcome' = [exc |-> r.exc, caught |-> r.caught, steps |-> r.steps,
                        data |-> r.data]
         /\ pc' = IF r.exc = "" THEN "parsed" ELSE "raised"
    /\ UNCHANGED <<response, llm, evaluator_vars, result_vars, cache_vars, tool_vars>>

Next == GenerateWhole \/ GenerateTruncated \/ GenerateWrapped \/ Forward

Spec == Init /\ [][Next]_vars

\* ------------------------------------------------------------------------
\* The state machine: one dimension score of StoryIdeaEvaluator.evaluate
\* ------------------------------------------------------------------------

\* evaluators.py 115-155: a judge has returned its dimension score
ScoreInit ==
    /\ ParserIdle
    /\ epc = "judged"
    /\ score_str \in JudgeTexts \cup JudgeNumbers
    /\ score = DEFAULT_SCORE
    /\ ResultIdle
    /\ CacheIdle
    /\ ToolIdle

\* evaluators.py 158-164: self._parse_score(<result>.<dimension>_score)
ParseScore ==
    /\ epc = "judged"
    /\ score' = _parse_score(score_str)
    /\ epc' = "scored"
    /\ UNCHANGED <<score_str, parser_vars, result_vars, cache_vars, tool_vars>>

ScoreNext == ParseScore

ScoreSpec == ScoreInit /\ [][ScoreNext]_vars

\* ------------------------------------------------------------------------
\* The state machine: the scores of one result of StoryIdeaEvaluator.evaluate
\* ------------------------------------------------------------------------

\* evaluators.py 116-155: the seven judges have returned
ResultInit ==
    /\ ParserIdle
    /\ EvaluatorIdle
    /\ rpc = "judged"
    /\ judgements \in UniformJudgements \cup MixedJudgements
    /\ result = NoResult
    /\ metric = NoMetric
    /\ CacheIdle
    /\ ToolIdle

\* evaluators.py 158-226: the scores are parsed and weighted, the result built;
\* 292-308: each metric function that made the call returns its score for it
BuildResult ==
    /\ rpc = "judged"
    /\ \E evaluation \in { EvaluationResult(ParseScores(judgements)) } :
          /\ result' = evaluation
          /\ metric' = [group_name \in { "overall" } \cup GroupNames |->
                           GroupScore(group_name, MetricNames(group_name), evaluation)]
    /\ rpc' = "evaluated"
    /\ UNCHANGED <<judgements, parser_vars, evaluator_vars, cache_vars, tool_vars>>

ResultNext == BuildResult

ResultSpec == ResultInit /\ [][ResultNext]_vars

\* ------------------------------------------------------------------------
\* The state machine: evaluators that share a cache file, called by workers
\* ------------------------------------------------------------------------

CacheInit == ParserIdle /\ EvaluatorIdle /\ ResultIdle /\ CacheIdle /\ ToolIdle

\* evaluators.py 59-72: StoryIdeaEvaluator(cache_file)
Construct(e) ==
    /\ ~evaluators[e].constructed
    /\ evaluators' = [evaluators EXCEPT ![e] =
                         [constructed |-> TRUE, cache |-> _load_cache(cache_file)]]
    /\ returned' = NothingReturned
    /\ UNCHANGED <<cache_file, calls, succeeded, overlapped, ncalls>>
    /\ UNCHANGED <<parser_vars, evaluator_vars, result_vars, tool_vars>>

\* what a call that ends returns to its caller: evaluate its result, a metric
\* function the score of its group
Return(call, steps, value) ==
    [self |-> call.self, key |-> call.key, via |-> call.via, outcome |-> "returned",
     steps |-> steps, value |-> value,
     score |-> IF call.via = "evaluate" THEN <<>>
               ELSE Scores[call.via][CHOOSE n \in 1..Len(Results) : Results[n] = value],
     earlier |-> call.earlier, lost |-> {}]

\* An exception that leaves the call whoever made it.
Propagate(call, steps) ==
    [self |-> call.self, key |-> call.key, via |-> call.via, outcome |-> "raised",
     steps |-> steps, value |-> NoResult, score |-> <<>>, earlier |-> call.earlier, lost |-> {}]

\* an exception leaves evaluate: it leaves the call, or (evaluators.py
\* 310-312) the metric function catches it and returns 0.0
Raise(call, steps) ==
    [self |-> call.self, key |-> call.key, via |-> call.via,
     outcome |-> IF call.via = "evaluate" THEN "raised" ELSE "returned",
     steps |-> steps, value |-> NoResult, score |-> <<>>, earlier |-> call.earlier, lost |-> {}]

\* evaluators.py 104-113: worker w calls evaluate of e, directly or through a
\* metric function (277-292) with a list of ideas as its prediction; on a hit
\* the call ends at once, on a miss it goes on to the judges
Call(w, e, input, via) ==
    /\ calls[w].phase = "idle"
    /\ FirstFree(w)
    /\ evaluators[e].constructed
    /\ ncalls < MaxCalls
    /\ ncalls' = ncalls + 1
    /\ overlapped' = [overlapped EXCEPT ![e] =
                         @ \/ \E other \in Worker : calls[other].phase = "judging"
                                                      /\ calls[other].self = e]
    /\ \E call \in { [phase |-> "judging", self |-> e,
                       key |-> _get_cache_key(input.ideas, input.request), via |-> via,
                       earlier |-> succeeded[e][_get_cache_key(input.ideas, input.request)]] } :
         IF InDict(evaluators[e].cache, call.key)
         THEN /\ returned' = Return(call, <<>>, DictGet(evaluators[e].cache, call.key))
              /\ succeeded' = [succeeded EXCEPT ![e][call.key] =
                                  @ \cup { DictGet(evaluators[e].cache, call.key) }]
              /\ UNCHANGED calls
         ELSE /\ calls' = [calls EXCEPT ![w] = call]
              /\ returned' = NothingReturned
              /\ UNCHANGED succeeded
    /\ UNCHANGED <<cache_file, evaluators, parser_vars, evaluator_vars, result_vars, tool_vars>>

\* evaluators.py 279-283: a metric function is called with a prediction that
\* is a string or cannot be iterated
CallUnexpected(w, e, via) ==
    /\ calls[w].phase = "idle"
    /\ FirstFree(w)
    /\ evaluators[e].constructed
    /\ ncalls < MaxCalls
    /\ ncalls' = ncalls + 1
    /\ returned' = [self |-> e, key |-> NoKey, via |-> via, outcome |-> "returned",
                    steps |-> <<>>, value |-> NoResult, score |-> <<>>, earlier |-> {},
                    lost |-> {}]
    /\ UNCHANGED <<cache_file, evaluators, calls, succeeded, overlapped>>
    /\ UNCHANGED <<parser_vars, evaluator_vars, result_vars, tool_vars>>

\* An end of evaluate at which a failure to write the file leaves evaluate.
FinishOrFail(w, n, io) ==
    /\ calls[w].phase = "judging"
    /\ \E cache \in { DictSet(evaluators[calls[w].self].cache, calls[w].key, Results[n]) } :
          /\ evaluators' = [evaluators EXCEPT ![calls[w].self].cache = cache]
          /\ cache_file' = _save_cache(cache_file, cache, io)
    /\ returned' = IF io = "written" THEN Return(calls[w], Steps, Results[n])
                   ELSE Propagate(calls[w], Steps)
    /\ succeeded' = [succeeded EXCEPT ![calls[w].self][calls[w].key] = @ \cup { Results[n] }]
    /\ calls' = [calls EXCEPT ![w] = NotCalling]
    /\ UNCHANGED <<overlapped, ncalls, parser_vars, evaluator_vars, result_vars, tool_vars>>

\* evaluators.py 116-232: the judges reply, the result is built, stored and
\* saved, and returned
Finish(w, n, io) ==
    /\ calls[w].phase = "judging"
    /\ \E e \in { calls[w].self }, value \in { Results[n] } :
         \E cache \in { DictSet(evaluators[e].cache, calls[w].key, value) } :
            /\ evaluators' = [evaluators EXCEPT ![e].cache = cache]
            /\ cache_file' = _save_cache(cache_file, cache, io)
            /\ returned' = [Return(calls[w], Steps, value) EXCEPT
                               !.lost = Keys(_load_cache(cache_file))
                                          \ Keys(_load_cache(cache_file'))]
            /\ succeeded' = [succeeded EXCEPT ![e][calls[w].key] = @ \cup { value }]
    /\ calls' = [calls EXCEPT ![w] = NotCalling]
    /\ UNCHANGED <<overlapped, ncalls, parser_vars, evaluator_vars, result_vars, tool_vars>>

\* A failure that leaves a result for the key in the cache and in the file.
StoreThenFail(w, n) ==
    /\ calls[w].phase = "judging"
    /\ \E cache \in { DictSet(evaluators[calls[w].self].cache, calls[w].key, Results[1]) } :
          /\ evaluators' = [evaluators EXCEPT ![calls[w].self].cache = cache]
          /\ cache_file' = _save_cache(cache_file, cache, "written")
    /\ returned' = Raise(calls[w], StepsTo(n))
    /\ calls' = [calls EXCEPT ![w] = NotCalling]
    /\ UNCHANGED <<succeeded, overlapped, ncalls, parser_vars, evaluator_vars, result_vars,
                   tool_vars>>

\* evaluators.py 116-155: the call of judge n raises
JudgeFails(w, n) ==
    /\ calls[w].phase = "judging"
    /\ returned' = Raise(calls[w], StepsTo(n))
    /\ calls' = [calls EXCEPT ![w] = NotCalling]
    /\ UNCHANGED <<cache_file, evaluators, succeeded, overlapped, ncalls>>
    /\ UNCHANGED <<parser_vars, evaluator_vars, result_vars, tool_vars>>

CacheNext ==
    \/ \E e \in Evaluator : Construct(e)
    \/ \E w \in Worker, e \in Evaluator, input \in Inputs, via \in Called :
          Call(w, e, input, via)
    \/ \E w \in Worker, e \in Evaluator, via \in MetricsCalled : CallUnexpected(w, e, via)
    \/ \E w \in Worker, n \in 1..Len(JudgeReplies), io \in IOOutcome : Finish(w, n, io)
    \/ \E w \in Worker, n \in FailingJudges : JudgeFails(w, n)

CacheSpec == CacheInit /\ [][CacheNext]_vars

\* ------------------------------------------------------------------------
\* src/evaluators.py: what evaluate sends to the judges
\* ------------------------------------------------------------------------

\* The characters of the two labels of format_ideas_for_evaluation
BIAO == "<U+6807>"
TI == "<U+9898>"
GU == "<U+6545>"
SHI == "<U+4E8B>"

\* str(i) of an integer that is not negative
RECURSIVE IntStr(_)
IntStr(i) ==
    LET digit == <<"0", "1", "2", "3", "4", "5", "6", "7", "8", "9">>[(i % 10) + 1] IN
    IF i < 10 THEN <<digit>> ELSE IntStr(i \div 10) \o <<digit>>

\* common.py 207-209: the lines of the ideas from the i-th on
RECURSIVE FormatFrom(_, _)
FormatFrom(story_ideas, i) ==
    IF i > Len(story_ideas) THEN <<>>
    ELSE IntStr(i) \o <<".", " ", BIAO, TI, ":", " ">> \o story_ideas[i].title
         \o <<"\n", " ", " ", " ", GU, SHI, ":", " ">> \o story_ideas[i].body
         \o <<"\n", "\n">> \o FormatFrom(story_ideas, i + 1)

\* common.py 205-210
format_ideas_for_evaluation(story_ideas) == Strip(FormatFrom(story_ideas, 1))

\* evaluators.py 116-155: the keyword arguments each judge is called with
JudgeInputs(request, formatted_ideas) ==
    [novelty |-> [genre |-> request.genre, story_ideas |-> formatted_ideas],
     feasibility |-> [platform |-> request.platform, story_ideas |-> formatted_ideas],
     structure |-> [story_ideas |-> formatted_ideas],
     detail |-> [story_ideas |-> formatted_ideas],
     logical_coherence |-> [genre |-> request.genre, story_ideas |-> formatted_ideas],
     genre |-> [genre |-> request.genre, story_ideas |-> formatted_ideas],
     engagement |-> [platform |-> request.platform, story_ideas |-> formatted_ideas]]

\* the calls of the judges in the order of the code
JudgeCalls(request, formatted_ideas) ==
    [i \in 1..Len(Dimensions) |->
        [judge |-> Dimensions[i],
         inputs |-> JudgeInputs(request, formatted_ideas)[Dimensions[i]]]]

\* An evaluate that asks no judge and stores nothing.
GuardedEvaluate(dict, story_ideas, request, n) ==
    [key |-> _get_cache_key(story_ideas, request), hit |-> FALSE, sent |-> <<>>,
     value |-> NoResult, cache |-> dict]

\* evaluators.py 104-232 in one thread, when no judge raises and the judges
\* reply with JudgeReplies[n]: the key, whether the cache had it, the calls of
\* the judges, the value returned and self.cache afterwards
evaluate(dict, story_ideas, request, n) ==
    LET cache_key == _get_cache_key(story_ideas, request) IN
    IF InDict(dict, cache_key)
    THEN [key |-> cache_key, hit |-> TRUE, sent |-> <<>>,
          value |-> DictGet(dict, cache_key), cache |-> dict]
    ELSE [key |-> cache_key, hit |-> FALSE,
          sent |-> JudgeCalls(request, format_ideas_for_evaluation(story_ideas)),
          value |-> Results[n], cache |-> DictSet(dict, cache_key, Results[n])]

\* ------------------------------------------------------------------------
\* The state machine: calls of evaluate on one evaluator from one thread
\* ------------------------------------------------------------------------

\* The most calls of evaluate in a run, and what it is called with
MaxEvaluations == 2
IdeaLists ==
    { <<>>, <<StoryIdea(<<"A">>, <<"B">>)>>,
      <<StoryIdea(<<"A">>, <<"B">>), StoryIdea(<<"C">>, <<" ">>)>> }
Requests ==
    { BrainstormRequest(genre, platform, requirements) :
        genre \in { "g", "h" }, platform \in { "p", "q" }, requirements \in { <<>>, <<"C">> } }

JudgeInit ==
    /\ ParserIdle
    /\ EvaluatorIdle
    /\ ResultIdle
    /\ CacheIdle
    /\ ToolIdle

\* evaluators.py 104-232: evaluate(ideas, request)
Evaluate(story_ideas, request, n) ==
    /\ Len(evaluations) < MaxEvaluations
    /\ \E r \in { evaluate(self_cache, story_ideas, request, n) } :
          /\ self_cache' = r.cache
          /\ evaluations' = Append(evaluations,
                                [ideas |-> story_ideas, request |-> request, key |-> r.key,
                                 hit |-> r.hit, sent |-> r.sent, value |-> r.value])
    /\ UNCHANGED <<repair_vars, variator_vars, fix_vars, parser_vars, evaluator_vars,
                   result_vars, cache_vars>>

JudgeNext ==
    \E story_ideas \in IdeaLists, request \in Requests, n \in 1..Len(JudgeReplies) :
        Evaluate(story_ideas, request, n)

JudgeSpec == JudgeInit /\ [][JudgeNext]_vars

\* ------------------------------------------------------------------------
\* The state machine: one call of attempt_fix_truncated_json
\* ------------------------------------------------------------------------

\* The most characters after the first of the texts the function is called
\* with, and the characters they are made of.
MaxBody == 5
FixChars == { "[", "{", "}", "\"", "\\", "A" }
FixTexts ==
    SeqsUpTo(FixChars, MaxBody) \cup { <<"[">> \o body : body \in SeqsUpTo(FixChars, MaxBody) }

\* common.py 91: attempt_fix_truncated_json is called with a text
FixInit ==
    /\ ParserIdle
    /\ EvaluatorIdle
    /\ ResultIdle
    /\ CacheIdle
    /\ RepairIdle
    /\ VariatorIdle
    /\ JudgeIdle
    /\ fpc = "called"
    /\ json_text \in FixTexts
    /\ truncated = None

\* common.py 131-178: it returns
Fix ==
    /\ fpc = "called"
    /\ truncated' = attempt_fix_truncated_json(json_text)
    /\ fpc' = "returned"
    /\ UNCHANGED <<json_text, repair_vars, variator_vars, judge_vars, parser_vars,
                   evaluator_vars, result_vars, cache_vars>>

FixNext == Fix

FixSpec == FixInit /\ [][FixNext]_vars

\* ------------------------------------------------------------------------
\* The state machine: one run of repair_json.py
\* ------------------------------------------------------------------------

\* repair_json.py 17-31: the arguments are parsed and the input is read
RepairInit ==
    /\ ParserIdle
    /\ EvaluatorIdle
    /\ ResultIdle
    /\ CacheIdle
    /\ VariatorIdle
    /\ FixIdle
    /\ JudgeIdle
    /\ tpc = "started"
    /\ args \in Args
    /\ input_text \in InputTexts
    /\ stdout = <<>>

\* repair_json.py 33-47: the text is repaired, formatted and printed
Main ==
    /\ tpc = "started"
    /\ stdout' = main(args, input_text)
    /\ tpc' = "done"
    /\ UNCHANGED <<args, input_text, variator_vars, fix_vars, judge_vars, parser_vars,
                   evaluator_vars, result_vars, cache_vars>>

RepairNext == Main

RepairSpec == RepairInit /\ [][RepairNext]_vars

\* ------------------------------------------------------------------------
\* The state machine: a RequirementsVariator and its callers
\* ------------------------------------------------------------------------

\* use_optimized_modules.py 71-72: the pool has been shuffled
VariatorInit ==
    /\ ParserIdle
    /\ EvaluatorIdle
    /\ ResultIdle
    /\ CacheIdle
    /\ RepairIdle
    /\ FixIdle
    /\ JudgeIdle
    /\ variator \in { [combination_pool |-> shuffled, current_index |-> 0] :
                        shuffled \in Shuffles([i \in 1..PoolSize |-> i]) }
    /\ requests = <<>>

\* use_optimized_modules.py 105-115: a caller takes one requirements string
GetUnique ==
    /\ \E one \in get_unique_requirements(variator) : variator' = one.variator
    /\ UNCHANGED <<requests, repair_vars, fix_vars, judge_vars, parser_vars, evaluator_vars,
                   result_vars, cache_vars>>

\* use_optimized_modules.py 125-127: get_batch_requests(genre, platform, count)
GetBatch(count) ==
    /\ \E batch \in get_batch_requests(variator, "g", "p", count) :
          /\ variator' = batch.variator
          /\ requests' = batch.requests
    /\ UNCHANGED <<repair_vars, fix_vars, judge_vars, parser_vars, evaluator_vars,
                   result_vars, cache_vars>>

VariatorNext == GetUnique \/ \E count \in 0..MaxCount : GetBatch(count)

VariatorSpec == VariatorInit /\ [][VariatorNext]_vars

\* ------------------------------------------------------------------------
\* Properties of parse_story_ideas (under Spec)
\* ------------------------------------------------------------------------

\* the call of parse_story_ideas has ended
Finished == pc \in { "parsed", "raised" }

\* json.loads reads the text as an array of objects that each have both keys
WellFormedIdeas(text) ==
    LET read == json_loads(text) IN
    /\ read.exc = ""
    /\ read.val.t = "list"
    /\ \A i \in 1..Len(read.val.v) :
         /\ read.val.v[i].t = "dict"
         /\ HasKey(read.val.v[i], TITLE)
         /\ HasKey(read.val.v[i], BODY)

\* the ideas of the elements of an array, each field trimmed
TrimmedIdeas(array) ==
    [ i \in 1..Len(array.v) |->
        StoryIdea(Strip(PyStr(GetKey(array.v[i], TITLE))),
                  Strip(PyStr(GetKey(array.v[i], BODY)))) ]

\* the text with every run of whitespace written in it replaced by one space
Squeezed(text) ==
    LET marked == [ i \in 1..Len(text) |->
                      IF text[i] \notin PyWhitespace THEN text[i]
                      ELSE IF i > 1 /\ text[i - 1] \in PyWhitespace THEN "" ELSE " " ] IN
    SelectSeq(marked, LAMBDA c : c # "")

\* C1: for every text, parse_story_ideas returns a list and no exception
\* leaves it; when its handler catches a failure the list is empty.
C1_NeverRaises ==
    /\ pc # "raised"
    /\ (pc = "parsed" /\ outcome.caught # "") => ideas = <<>>

C3_FencedSameAsUnfenced ==
    (Finished /\ llm.whole /\ llm.fence # <<>>) =>
        LET unfenced == parse_story_ideas(Layout(llm.indent, llm.elems, llm.closing)) IN
        /\ ideas = unfenced.ideas
        /\ outcome.exc = unfenced.exc

\* the text kept is "[", k complete objects each followed by a comma, and a
\* proper non-empty part of the next object
CutInsideObject(k) ==
    /\ ~llm.whole
    /\ llm.fence = <<>>
    /\ llm.closing = <<>>
    /\ k \in 1..(Len(llm.elems) - 1)
    /\ LET before == Len(Document(SubSeq(llm.elems, 1, k), <<",">>)) IN
         /\ llm.cut > before
         /\ llm.cut < before + Len(Elements[llm.elems[k + 1]])

\* C4: an array cut anywhere inside an object that follows one or more
\* complete objects yields exactly the complete objects, in order, and no
\* exception.
C4_CompleteObjectsKept ==
    \A k \in 1..MaxElems :
        (Finished /\ CutInsideObject(k)) =>
            /\ pc = "parsed"
            /\ ideas = parse_story_ideas(Document(SubSeq(llm.elems, 1, k), <<"]">>)).ideas

\* the text is an array of complete objects without its closing bracket, bare
\* or after an opening json fence
MissingBracket(e) ==
    /\ e # <<>>
    /\ response \in { Document(e, <<>>), FENCE_JSON \o <<"\n">> \o Document(e, <<>>) }

\* C5: an array whose elements are all complete but whose closing bracket is
\* missing goes through the repair step and yields one idea per object.
C5_MissingBracketRepaired ==
    \A e \in SeqsUpTo(Plain, MaxElems) :
        (Finished /\ MissingBracket(e)) =>
            /\ pc = "parsed"
            /\ \E i \in 1..Len(outcome.steps) : outcome.steps[i] = "repair"
            /\ ideas = parse_story_ideas(Document(e, <<"]">>)).ideas

\* an element that is no object or lacks the title or the body key
BadElement(value) ==
    value.t # "dict" \/ ~HasKey(value, TITLE) \/ ~HasKey(value, BODY)

\* the value parse_story_ideas validates is an array
ParsedArray == Finished /\ outcome.data.exc = "" /\ outcome.data.val.t = "list"

\* C6: when the parsed array has an element that is no object or lacks the
\* title or the body key, whatever its position, the result is the empty list.
C6_WholeBatchRejected ==
    (ParsedArray /\ \E i \in 1..Len(outcome.data.val.v) : BadElement(outcome.data.val.v[i])) =>
        /\ pc = "parsed"
        /\ ideas = <<>>

\* C6: an array of a valid element followed by a bad one has been rejected
C6_Witness ==
    /\ ParsedArray
    /\ Len(outcome.data.val.v) = 2
    /\ ~BadElement(outcome.data.val.v[1])
    /\ BadElement(outcome.data.val.v[2])
    /\ outcome.caught \in { "KeyError", "ValueError" }
    /\ ideas = <<>>

\* C7: every idea returned has a non-empty title and a non-empty body.
C7_NoEmptyField ==
    pc = "parsed" =>
        \A i \in 1..Len(ideas) : ideas[i].title # <<>> /\ ideas[i].body # <<>>

\* the step has run in the call that has ended
Ran(step) == \E i \in 1..Len(outcome.steps) : outcome.steps[i] = step

\* C21: the recovery steps run in a fixed order and short-circuit: the direct
\* parse is first; the brace-balancing repair is attempted only when the
\* direct parse failed with an unterminated string or the cleaned text ends
\* with '...'; the regex extraction is attempted only when the direct parse
\* failed and the repair was not attempted, returned nothing, or returned a
\* text that does not parse; no step runs after one that yielded a value.
C21_RecoveryOrder ==
    Finished =>
        LET cleaned == CleanResponse(response)
            direct == json_loads(cleaned)
            fixed == attempt_fix_truncated_json(cleaned) IN
        /\ outcome.steps \in { <<"direct">>, <<"direct", "repair">>, <<"direct", "regex">>,
                               <<"direct", "repair", "regex">> }
        /\ Ran("repair") =>
              /\ direct.exc = "JSONDecodeError"
              /\ direct.msg = UNTERMINATED \/ EndsWith(cleaned, ELLIPSIS)
        /\ Ran("regex") =>
              /\ direct.exc = "JSONDecodeError"
              /\ \/ ~Ran("repair")
                 \/ fixed.none
                 \/ json_loads(fixed.text).exc # ""
        /\ direct.exc = "" => outcome.steps = <<"direct">> /\ outcome.data = direct
        /\ (Ran("repair") /\ ~fixed.none /\ json_loads(fixed.text).exc = "") =>
              outcome.steps = <<"direct", "repair">> /\ outcome.data = json_loads(fixed.text)

\* C21: the repair has returned a text that does not parse and the regex
\* extraction has run after it
C21_Witness ==
    /\ Finished
    /\ outcome.steps = <<"direct", "repair", "regex">>
    /\ ~attempt_fix_truncated_json(CleanResponse(response)).none
    /\ json_loads(attempt_fix_truncated_json(CleanResponse(response)).text).exc # ""

\* the repair has been attempted and its text parses
RepairParsed(cleaned) ==
    /\ Ran("repair")
    /\ ~attempt_fix_truncated_json(cleaned).none
    /\ json_loads(attempt_fix_truncated_json(cleaned).text).exc = ""

\* C22: when the direct parse fails, the repair does not produce a text that
\* parses, and the cleaned text has no '[' with a ']' after it, the parse
\* fails for good and parse_story_ideas returns the empty list.
C22_NoArrayNoIdeas ==
    Finished =>
        LET cleaned == CleanResponse(response) IN
        (/\ json_loads(cleaned).exc # ""
         /\ ~RepairParsed(cleaned)
         /\ FirstBracketSpan(cleaned).none)
            => /\ pc = "parsed"
               /\ outcome.caught = "JSONDecodeError"
               /\ ideas = <<>>

\* ------------------------------------------------------------------------
\* Properties of _parse_score (under ScoreSpec)
\* ------------------------------------------------------------------------

\* C8: every score _parse_score produces lies in the valid range, never above
\* 10.0 and never below the lower bound, whether the judge returned a text or
\* a value that is already a number.
C8_ScoreInRange ==
    epc = "scored" => (score >= 0 * Scale /\ score <= 10 * Scale)

\* digits, or digits, a point and digits
IsDecimal(text) ==
    /\ text # <<>>
    /\ \/ \A j \in 1..Len(text) : text[j] \in Digit
       \/ \E p \in 2..(Len(text) - 1) :
            /\ text[p] = "."
            /\ \A j \in 1..Len(text) : j # p => text[j] \in Digit

\* the text is one number, with or without a minus sign
IsNumber(text) ==
    text # <<>> /\ IsDecimal(IF text[1] = "-" THEN Tail(text) ELSE text)

\* the number the text writes
NumberValue(text) ==
    IF text[1] = "-" THEN 0 - PyFloat(Tail(text)) ELSE PyFloat(text)

\* C9: a score text whose number lies outside [1,10] is clamped to the
\* nearest bound: above 10 it yields 10.0, below 1 it yields 1.0.
C9_ClampedToNearestBound ==
    (epc = "scored" /\ score_str.type = "str" /\ IsNumber(score_str.text)) =>
        /\ NumberValue(score_str.text) > 10 * Scale => score = 10 * Scale
        /\ NumberValue(score_str.text) < 1 * Scale => score = 1 * Scale

\* C10: a score text without a number yields the default 5.0; a text with a
\* number yields the first decimal number in it (the longest one that starts
\* at its first digit), 10.0 when that number is larger.
C10_DefaultOrFirstNumber ==
    (epc = "scored" /\ score_str.type = "str") =>
        LET text == score_str.text
            digits == { i \in 1..Len(text) : text[i] \in Digit } IN
        IF digits = {} THEN score = 5 * Scale
        ELSE \E first \in digits, last \in digits :
                /\ \A i \in digits : first <= i
                /\ IsDecimal(SubSeq(text, first, last))
                /\ \A i \in digits : IsDecimal(SubSeq(text, first, i)) => i <= last
                /\ score = IF PyFloat(SubSeq(text, first, last)) > 10 * Scale
                           THEN 10 * Scale
                           ELSE PyFloat(SubSeq(text, first, last))

\* C10: of two numbers with prose between them the first has been read as
\* the score
C10_Witness ==
    /\ epc = "scored"
    /\ score_str = PyText(<<"3", "x", "9">>)
    /\ score = 3 * Scale

\* ------------------------------------------------------------------------
\* Properties of the scores of a result (under ResultSpec)
\* ------------------------------------------------------------------------

\* the result of the evaluation has been built
Evaluated == rpc = "evaluated"

\* the weights, added in the order the code writes them
WeightsTotal ==
    LET one == [d \in Dimension |-> Float(1 * Scale)] IN WeightedSum(one, Dimensions)

\* other orders of adding the seven terms: the reverse, and two rotations
Reverse(order) == [i \in 1..Len(order) |-> order[Len(order) + 1 - i]]
Rotate(order, n) == SubSeq(order, n + 1, Len(order)) \o SubSeq(order, 1, n)
Orders == { Dimensions, Reverse(Dimensions), Rotate(Dimensions, 1), Rotate(Dimensions, 4) }

\* 1.0
One == Float(1 * Scale)

\* C15: for every combination of values of the seven judges, the overall
\* metric function returns overall_score / 10 of the evaluation, and the value
\* is in [0, 1] (the scores of the runs are not negative, so the bound that
\* is left to check is the upper one).
C15_OverallMetricInUnit ==
    Evaluated =>
        /\ metric.overall = FloatDiv(result.overall_score, 10)
        /\ BigLeq(metric.overall, One)

\* the groups and their members as the claim names them
NamedGroups ==
    [creativity |-> <<"novelty", "engagement">>,
     feasibility |-> <<"feasibility", "structure">>,
     content_quality |-> <<"detail", "logical_coherence", "genre">>]

Members(group) == { group[i] : i \in 1..Len(group) }

\* the sum of the first n members' scores, and the mean of all divided by 10
RECURSIVE Total(_, _, _)
Total(scores, members, n) ==
    IF n = 0 THEN <<>> ELSE FloatAdd(Total(scores, members, n - 1), scores[members[n]])

MeanTenth(scores, members) ==
    FloatDiv(FloatDiv(Total(scores, members, Len(members)), Len(members)), 10)

\* C16: the groups creativity, feasibility and content_quality have the named
\* members, are pairwise disjoint and cover the seven dimensions; each group
\* metric returns the mean of the scores of its members divided by 10, the
\* scores being those the overall score of the evaluation is computed from.
C16_GroupsPartitionAndMean ==
    /\ DOMAIN groups = GroupNames
    /\ \A g \in GroupNames :
          /\ Members(groups[g]) = Members(NamedGroups[g])
          /\ Len(groups[g]) = Cardinality(Members(groups[g]))
    /\ \A g, h \in GroupNames : g # h => Members(groups[g]) \cap Members(groups[h]) = {}
    /\ UNION { Members(groups[g]) : g \in GroupNames } = Dimension
    /\ Evaluated =>
          LET scores == ParseScores(judgements) IN
          /\ result.overall_score = overall_score(scores)
          /\ \A g \in GroupNames : metric[g] = MeanTenth(scores, NamedGroups[g])

C16_Witness ==
    /\ Evaluated
    /\ judgements["detail"] # judgements["genre"]
    /\ metric.creativity # metric.feasibility
    /\ metric.creativity # metric.content_quality
    /\ metric.feasibility # metric.content_quality
    /\ metric.content_quality = MeanTenth(ParseScores(judgements), NamedGroups.content_quality)

\* C11: the overall score is the weighted sum of the seven scores with weights
\* that add up to exactly 1.0; so when the seven scores all equal X the overall
\* score equals X, the overall score lies between the least and the greatest
\* score, and adding the terms in another order gives the same overall score.
C11_WeightedOverall ==
    Evaluated =>
        LET scores == ParseScores(judgements) IN
        /\ WeightsTotal = Float(1 * Scale)
        /\ result.overall_score = WeightedSum(scores, Dimensions)
        /\ (\A d \in Dimension : scores[d] = scores["novelty"])
              => result.overall_score = scores["novelty"]
        /\ \E least, greatest \in Dimension :
              /\ BigLeq(scores[least], result.overall_score)
              /\ BigLeq(result.overall_score, scores[greatest])
        /\ \A order \in Orders : WeightedSum(scores, order) = result.overall_score

\* ------------------------------------------------------------------------
\* Properties of the cache of StoryIdeaEvaluator (under CacheSpec)
\* ------------------------------------------------------------------------

\* evaluate has returned a result, to its caller or to a metric function
EvaluateReturned == returned.outcome = "returned" /\ returned.value # NoResult

\* a hit: evaluate has returned without a step after the lookup
Hit == EvaluateReturned /\ returned.steps = <<>>

\* the calls on evaluator e so far were a sequence: none began while another
\* was with the judges
Sequential(e) == ~overlapped[e]

\* C12: in a sequence of evaluate calls on one evaluator, a call with the
\* (ideas, genre, platform, requirements_section) of an earlier successful
\* call invokes no judge and returns the EvaluationResult of that earlier call.
C12_CacheRoundTrip ==
    /\ \A w \in Worker :
          calls[w].phase = "judging" /\ Sequential(calls[w].self) => calls[w].earlier = {}
    /\ returned.outcome # "none" /\ returned.earlier # {} /\ Sequential(returned.self)
          => Hit /\ returned.earlier = { returned.value }

C12_Witness ==
    /\ Hit
    /\ returned.via = "evaluate"
    /\ returned.earlier = { returned.value }
    /\ Sequential(returned.self)
    /\ Len(evaluators[returned.self].cache) = 2

\* a judge has raised in the call that has just ended
JudgeFailed ==
    returned.outcome # "none" /\ returned.steps # <<>> /\ returned.value = NoResult

\* C13: when a judge call fails during evaluate, the error leaves evaluate to
\* its caller, and the step adds no entry to the cache of the evaluator and
\* does not rewrite the cache file: both are as they were before the call.
C13_FailureHasNoEffect ==
    [][JudgeFailed' =>
          /\ evaluators' = evaluators
          /\ cache_file' = cache_file
          /\ (returned'.via = "evaluate" => returned'.outcome = "raised")
          /\ \E w \in Worker :
                /\ calls[w].phase = "judging"
                /\ calls'[w] = NotCalling
                /\ returned'.key = calls[w].key
                /\ ~InDict(evaluators[calls[w].self].cache, calls[w].key)
                      => ~InDict(evaluators'[calls[w].self].cache, calls[w].key)]_vars

C13_Witness ==
    /\ JudgeFailed
    /\ returned.via = "evaluate"
    /\ returned.outcome = "raised"
    /\ returned.steps = StepsTo(Len(Dimensions))
    /\ Len(evaluators[returned.self].cache) = 1
    /\ ~InDict(evaluators[returned.self].cache, returned.key)
    /\ cache_file = Pickle(evaluators[returned.self].cache)

\* a metric function has been called and the call has ended
MetricEnded == returned.outcome # "none" /\ returned.via \in MetricsCalled

\* C14: a metric function of create_group_metric never raises: when a judge
\* call fails in its evaluation it returns 0.0, and for a prediction that is a
\* string or cannot be iterated it returns 0.0 and no judge has been called.
C14_MetricNeverRaises ==
    MetricEnded =>
        /\ returned.outcome = "returned"
        /\ returned.value = NoResult => returned.score = Float(0)
        /\ returned.key = NoKey => returned.steps = <<>> /\ returned.score = Float(0)

C14_Witness ==
    /\ MetricEnded
    /\ JudgeFailed
    /\ returned.outcome = "returned"
    /\ returned.score = Float(0)
    /\ returned.steps = StepsTo(1)

\* the order of the seven dimensions that the claim names
CanonicalOrder ==
    <<"novelty", "feasibility", "structure", "detail", "logical_coherence", "genre",
      "engagement">>

IsPrefix(s, t) == Len(s) <= Len(t) /\ s = SubSeq(t, 1, Len(s))

\* C17: on a cache miss evaluate calls each of the seven judges once, one
\* after the other in the order novelty, feasibility, structure, detail,
\* logical coherence, genre consistency, engagement, before it parses a score
\* or writes the cache; the feedback of a result lists the seven dimensions in
\* the same order.
C17_JudgesInOrder ==
    /\ EvaluateReturned /\ ~Hit =>
          /\ Len(returned.steps) > Len(CanonicalOrder)
          /\ SubSeq(returned.steps, 1, Len(CanonicalOrder)) = CanonicalOrder
          /\ \A i \in (Len(CanonicalOrder) + 1)..Len(returned.steps) :
                returned.steps[i] \notin Dimension
    /\ JudgeFailed =>
          /\ IsPrefix(returned.steps, CanonicalOrder)
          /\ returned.steps[Len(returned.steps)] \in { CanonicalOrder[n] : n \in FailingJudges }
    /\ EvaluateReturned => returned.value.feedback = CanonicalOrder

C17_Witness ==
    /\ EvaluateReturned
    /\ returned.via = "evaluate"
    /\ returned.steps = CanonicalOrder \o <<"_parse_score", "cache", "_save_cache">>
    /\ returned.value.feedback = CanonicalOrder

\* C18: entries of the cache are not invalidated, evicted or overwritten: in
\* every step a fingerprint that is in the cache of an evaluator stays in it,
\* and while the calls on the evaluator are a sequence the result stored
\* under it stays the same.
C18_EntriesStay ==
    [][\A e \in Evaluator :
          evaluators[e].constructed =>
              \A key \in Keys(evaluators[e].cache) :
                  /\ InDict(evaluators'[e].cache, key)
                  /\ Sequential(e)' =>
                        DictGet(evaluators'[e].cache, key) = DictGet(evaluators[e].cache, key)]_vars

C18_Witness ==
    /\ Hit
    /\ Sequential(returned.self)
    /\ ncalls = MaxCalls
    /\ Len(evaluators[returned.self].cache) = 2
    /\ returned.key = evaluators[returned.self].cache[1][1]
    /\ returned.value = evaluators[returned.self].cache[1][2]
    /\ returned.value # evaluators[returned.self].cache[2][2]

\* a miss has ended with the result stored and the file written
Stored == EvaluateReturned /\ ~Hit /\ cache_file.state = "pickle"

\* C19: after a successful store the cache file holds the whole cache of the
\* evaluator that stored; an evaluator constructed on the file starts with
\* the entries of the file, so with every entry the last writer has stored;
\* and in a sequence of calls no judge is called for a fingerprint the
\* evaluator has in its cache.
C19_PersistenceRoundTrip ==
    /\ [](Stored => /\ cache_file.cache = evaluators[returned.self].cache
                    /\ InDict(cache_file.cache, returned.key)
                    /\ DictGet(cache_file.cache, returned.key) = returned.value)
    /\ [](\A w \in Worker :
             calls[w].phase = "judging" /\ Sequential(calls[w].self)
                => ~InDict(evaluators[calls[w].self].cache, calls[w].key))
    /\ [][\A e \in Evaluator :
             ~evaluators[e].constructed /\ evaluators'[e].constructed =>
                 /\ cache_file.state = "pickle" => evaluators'[e].cache = cache_file.cache
                 /\ \A writer \in Evaluator :
                       cache_file = Pickle(evaluators[writer].cache)
                          => evaluators'[e].cache = evaluators[writer].cache]_vars

C19_Witness ==
    /\ Hit
    /\ returned.self = "e2"
    /\ returned.via = "evaluate"
    /\ returned.earlier = {}
    /\ succeeded["e1"][returned.key] = { returned.value }
    /\ \A key \in Fingerprint : succeeded["e2"][key] \subseteq { returned.value }
    /\ Len(evaluators["e2"].cache) = 2
    /\ evaluators["e2"].cache = evaluators["e1"].cache
    /\ cache_file = Pickle(evaluators["e1"].cache)

\* C20: a store rewrites the whole file from the cache of the evaluator that
\* stores: what the file held and that evaluator lacks is gone from the
\* file. With two evaluators that have each loaded the file before the
\* other's store, an entry the other has persisted is lost in this way.
C20_StoreRewritesWholeFile ==
    [][Stored' =>
          /\ cache_file' = Pickle(evaluators'[returned'.self].cache)
          /\ returned'.lost =
                Keys(_load_cache(cache_file)) \ Keys(evaluators'[returned'.self].cache)
          /\ \A key \in returned'.lost : ~InDict(_load_cache(cache_file'), key)]_vars

C20_Witness ==
    /\ Stored
    /\ returned.self = "e2"
    /\ \E key \in returned.lost :
          /\ InDict(evaluators["e1"].cache, key)
          /\ succeeded["e1"][key] # {}
          /\ ~InDict(evaluators["e2"].cache, key)
          /\ ~InDict(cache_file.cache, key)
    /\ ~InDict(evaluators["e1"].cache, returned.key)

\* ------------------------------------------------------------------------
\* Properties of repair_json.py (under RepairSpec)
\* ------------------------------------------------------------------------

\* the characters outside ASCII in a text, and in the document a text writes
Outside(text) == { text[i] : i \in 1..Len(text) } \cap NonAscii
OutsideOf(document) ==
    IF document.t = "str" THEN Outside(document.v)
    ELSE UNION { Outside(document.v[i].v) : i \in 1..Len(document.v) }

\* C23: repair_json.py keeps the characters outside ASCII of the document in
\* its output by default, and its output is ASCII only (escaped) exactly when
\* --ensure-ascii is given, for every value of --indent, the default 2
\* included.
C23_AsciiExactlyWhenAsked ==
    tpc = "done" =>
        LET document == json_loads(input_text).val IN
        /\ ~args.ensure_ascii => OutsideOf(document) \subseteq Outside(stdout)
        /\ args.ensure_ascii => Outside(stdout) = {}
        /\ OutsideOf(document) # {} => (Outside(stdout) = {} <=> args.ensure_ascii)

\* ------------------------------------------------------------------------
\* Properties of RequirementsVariator (under VariatorSpec)
\* ------------------------------------------------------------------------

\* C24: the requests that one call of get_batch_requests returns have
\* requirements_section strings that differ from each other, for every count
\* and every state of the variator before the call, also when the pool is
\* used up and shuffled again during the batch.
C24_BatchDistinct ==
    \A i, j \in 1..Len(requests) :
        i # j => requests[i].requirements_section # requests[j].requirements_section

\* ------------------------------------------------------------------------
\* Properties of attempt_fix_truncated_json (under FixSpec)
\* ------------------------------------------------------------------------

\* the character at i follows a backslash that is not itself escaped
RECURSIVE Escaped(_, _)
Escaped(text, i) == i > 1 /\ text[i - 1] = "\\" /\ ~Escaped(text, i - 1)

\* the character at i is inside a quoted string: the quotes before it that are
\* not escaped are odd in number
InString(text, i) ==
    Cardinality({ j \in 1..(i - 1) : text[j] = "\"" /\ ~Escaped(text, j) }) % 2 = 1

\* the braces that count, as stated: those outside quoted strings
Outer(text, brace) == { j \in 1..Len(text) : text[j] = brace /\ ~InString(text, j) }

\* the braces that count, amended: those outside quoted strings and not escaped
OuterUnescaped(text, brace) == { j \in Outer(text, brace) : ~Escaped(text, j) }

\* the text up to the last of the closing braces at which as many have been
\* closed as opened, followed by ']'; nothing without '[' first or such a brace
LastBoundary(text, opening, closing) ==
    LET boundaries ==
            { i \in closing : Cardinality({ j \in opening : j < i })
                                = Cardinality({ j \in closing : j <= i }) } IN
    IF ~StartsWith(text, <<"[">>) \/ boundaries = {} THEN None
    ELSE Some(Take(text, Max(boundaries)) \o <<"]">>)

\* C25, as stated: on a text that starts with '[' attempt_fix_truncated_json
\* returns the text up to the last '}' at which the count of '{' minus '}'
\* outside quoted strings is back at zero, followed by ']'; braces in quoted
\* strings and quotes after a backslash do not count; it returns nothing when
\* the text does not start with '[' or has no such '}'.
C25_LastBalancedPrefix ==
    fpc = "returned" =>
        truncated = LastBoundary(json_text, Outer(json_text, "{"), Outer(json_text, "}"))

\* C25, amended: the same, where a character that follows an unescaped
\* backslash is skipped wherever it stands: an escaped quote opens and closes
\* no string, and an escaped brace is not counted even outside quoted strings.
C25_LastBalancedUnescapedPrefix ==
    fpc = "returned" =>
        truncated = LastBoundary(json_text, OuterUnescaped(json_text, "{"),
                                 OuterUnescaped(json_text, "}"))

\* C25: an escaped quote has opened no string, the object after it has been
\* kept and the open brace after that has been cut off
C25_Witness ==
    /\ fpc = "returned"
    /\ json_text = <<"[", "\\", "\"", "{", "}", "{">>
    /\ truncated = Some(<<"[", "\\", "\"", "{", "}", "]">>)

\* ------------------------------------------------------------------------
\* Properties of parse_story_ideas on a text that is no array (under Spec)
\* ------------------------------------------------------------------------

\* json.loads reads the cleaned text as a value that is no array
DirectNoArray ==
    /\ Finished
    /\ \E direct \in { json_loads(CleanResponse(response)) } :
          direct.exc = "" /\ direct.val.t # "list"

\* C29: when json.loads reads the cleaned text as a value that is no array,
\* parse_story_ideas returns the empty list after the direct parse alone:
\* neither the repair nor the regex extraction runs, whatever bracketed span
\* the text holds
C29_NoArrayRejected ==
    Finished =>
        \A direct \in { json_loads(CleanResponse(response)) } :
            (direct.exc = "" /\ direct.val.t # "list") =>
                /\ pc = "parsed"
                /\ ideas = <<>>
                /\ outcome.steps = <<"direct">>
                /\ outcome.caught = "ValueError"

\* C29: an object that holds an array of two well-formed ideas has been read
\* and rejected
C29_Witness ==
    /\ llm.wrapper = WRAPPER
    /\ DirectNoArray
    /\ Len(llm.elems) = 2
    /\ WellFormedIdeas(Document(llm.elems, <<"]">>))
    /\ ~FirstBracketSpan(CleanResponse(response)).none
    /\ ideas = <<>>

\* ------------------------------------------------------------------------
\* Properties of evaluate in one thread (under JudgeSpec)
\* ------------------------------------------------------------------------

\* evaluation i was called with what an earlier one was called with
Repeated(i) ==
    \E k \in 1..(i - 1) : /\ evaluations[k].ideas = evaluations[i].ideas
                          /\ evaluations[k].request = evaluations[i].request

\* the first evaluation that was called with what evaluation i was called with
FirstLike(i) ==
    CHOOSE k \in 1..i : /\ evaluations[k].ideas = evaluations[i].ideas
                        /\ evaluations[k].request = evaluations[i].request
                        /\ ~Repeated(k)

\* C26: evaluate of an empty list of ideas that finds no entry calls the seven
\* judges in order with the empty text as story_ideas and stores its result
\* under the key of (empty list, genre, platform, requirements_section); a
\* later evaluate of an empty list with the same request calls no judge and
\* returns that result
C26_EmptyIdeasEvaluated ==
    \A i \in 1..Len(evaluations) :
        evaluations[i].ideas = <<>> =>
            /\ evaluations[i].key =
                  [ideas |-> <<>>, genre |-> evaluations[i].request.genre,
                   platform |-> evaluations[i].request.platform,
                   requirements |-> evaluations[i].request.requirements_section]
            /\ InDict(self_cache, evaluations[i].key)
            /\ ~Repeated(i) =>
                  /\ ~evaluations[i].hit
                  /\ Len(evaluations[i].sent) = Len(Dimensions)
                  /\ \A j \in 1..Len(Dimensions) :
                        /\ evaluations[i].sent[j].judge = Dimensions[j]
                        /\ evaluations[i].sent[j].inputs.story_ideas = <<>>
                  /\ \E n \in 1..Len(Results) : evaluations[i].value = Results[n]
            /\ Repeated(i) =>
                  /\ evaluations[i].hit
                  /\ evaluations[i].sent = <<>>
                  /\ evaluations[i].value = evaluations[FirstLike(i)].value

\* C26: an empty list has been evaluated twice with one request, the second
\* time from the cache
C26_Witness ==
    /\ Len(evaluations) = 2
    /\ evaluations[1].ideas = <<>>
    /\ evaluations[2].ideas = <<>>
    /\ evaluations[1].request = evaluations[2].request
    /\ Len(evaluations[1].sent) = Len(Dimensions)
    /\ evaluations[2].hit

\* evaluations i and j were called with the same ideas, genre and platform
SameButRequirements(i, j) ==
    /\ evaluations[i].ideas = evaluations[j].ideas
    /\ evaluations[i].request.genre = evaluations[j].request.genre
    /\ evaluations[i].request.platform = evaluations[j].request.platform

\* C28: two evaluations that found no entry and were called with the same
\* ideas, genre and platform sent the same inputs to every judge, whatever
\* their requirements_section; when the requirements_section differs the keys
\* differ, and the later one finds no entry unless an earlier evaluation had
\* its very ideas and request
C28_RequirementsOnlyInKey ==
    \A i, j \in 1..Len(evaluations) :
        (i < j /\ SameButRequirements(i, j)) =>
            /\ (~evaluations[i].hit /\ ~evaluations[j].hit) =>
                  evaluations[i].sent = evaluations[j].sent
            /\ evaluations[i].request.requirements_section
                  # evaluations[j].request.requirements_section =>
                  /\ evaluations[i].key # evaluations[j].key
                  /\ ~Repeated(j) => ~evaluations[j].hit

\* C28: ideas have been evaluated twice with requests that differ only in
\* requirements_section, and the second evaluation has called the judges
C28_Witness ==
    /\ Len(evaluations) = 2
    /\ evaluations[1].ideas # <<>>
    /\ SameButRequirements(1, 2)
    /\ evaluations[1].request.requirements_section = <<>>
    /\ evaluations[2].request.requirements_section = <<"C">>
    /\ Len(evaluations[2].sent) = Len(Dimensions)
    /\ evaluations[1].sent = evaluations[2].sent

\* ------------------------------------------------------------------------
\* Properties of concurrent calls of evaluate (under CacheSpec)
\* ------------------------------------------------------------------------

\* C27: no two calls on one evaluator are with the judges for one key at the
\* same time
C27_JudgedOncePerFingerprint ==
    \A w, other \in Worker :
        (/\ w # other
         /\ calls[w].phase = "judging"
         /\ calls[other].phase = "judging"
         /\ calls[w].self = calls[other].self)
            => calls[w].key # calls[other].key

\* the call that has just ended went through every step of a miss and its
\* write of the cache file failed
WriteFailed == returned.steps = Steps /\ cache_file.state = "truncated"

\* C30: when the write of the cache file fails, evaluate returns the result
\* it has computed and no exception leaves it, and the entry is in the cache
\* of the evaluator; an entry never leaves the cache of a constructed
\* evaluator and no call goes to the judges with its key in the cache, so a
\* later call with that key is a hit; and an evaluator constructed on a file
\* that is absent or cannot be read starts with an empty cache, without an
\* exception.
C30_FileFailuresTolerated ==
    /\ [](WriteFailed =>
             /\ returned.outcome = "returned"
             /\ \E n \in 1..Len(Results) : returned.value = Results[n]
             /\ InDict(evaluators[returned.self].cache, returned.key)
             /\ DictGet(evaluators[returned.self].cache, returned.key) = returned.value)
    /\ [][\A e \in Evaluator :
             /\ \A key \in Fingerprint :
                   InDict(evaluators[e].cache, key) => InDict(evaluators'[e].cache, key)
             /\ \A w \in Worker :
                   (calls[w].phase = "idle" /\ calls'[w].phase = "judging"
                      /\ calls'[w].self = e)
                      => ~InDict(evaluators[e].cache, calls'[w].key)
             /\ (~evaluators[e].constructed /\ evaluators'[e].constructed
                   /\ cache_file.state # "pickle")
                   => evaluators'[e].cache = <<>> /\ returned'.outcome # "raised"]_vars

\* C30: the write of the file has failed in the first call of the only
\* evaluator, and its second call, with the same key, has been a hit
C30_Witness ==
    /\ Hit
    /\ cache_file = Truncated
    /\ ncalls = 2
    /\ ~evaluators["e2"].constructed
    /\ returned.earlier = { returned.value }
    /\ Len(evaluators[returned.self].cache) = 1

====
